---------------------------- MODULE Spec2Model ----------------------------
(***************************************************************************)
(* Model of the agent orchestration core of chat_gemini_rust:              *)
(*   - mcp/mapper.rs   tool namespacing (server__tool)                      *)
(*   - main.rs         the REPL loop, the agent loop, the SSE decode loop   *)
(*   - mcp/client.rs   the JSON-RPC client of one tool subprocess           *)
(*   - chat/session.rs the conversation history                             *)
(*                                                                         *)
(* Conventions.  An Option<T> is a sequence of length 0 (None) or 1        *)
(* (Some(v)).  A name (server, tool, function-call name) is a sequence of  *)
(* one-character strings, so that the separator search of splitn is        *)
(* computed, not assumed.  Response text is a TLA+ string and push_str is  *)
(* \o.  A byte stream is a sequence of symbols: the six bytes "data: " are *)
(* the two symbols DATA and SP, a JSON document is "{" key "}", LF is the  *)
(* line terminator.                                                        *)
(***************************************************************************)
EXTENDS Integers, Sequences, FiniteSets, TLC

VARIABLES
    ns,                  \* mapper.rs / main.rs:346  one namespacing round trip
    sch,                 \* mapper.rs:25  one mapping of a tool's input schema
    pc,                  \* main.rs  position of the control thread
    stream,              \* main.rs:286  items the byte stream has yet to yield
    received,            \* the bytes the stream has yielded so far (Ok chunks)
    full_response_text,  \* main.rs:281
    function_calls,      \* main.rs:282
    usage_meta,          \* main.rs:283
    events,              \* what the decode loop produced, in order
    history,             \* session.rs:13  ChatSession.history
    total_cost,          \* session.rs:14  ChatSession.total_cost
    active_cache_name,   \* main.rs:96
    cache_contents,      \* the contents uploaded for the active cache (main.rs:145)
    content_parts,       \* main.rs:171  the parts built from the user's input
    mcp_clients,         \* main.rs:103  registry: server name -> McpClient
    procs,               \* the tool subprocesses spawned so far, by pid
    request,             \* main.rs:260  the last GenerateContentRequest built
    n_requests,          \* model requests issued so far
    responses,           \* main.rs:342  function responses of the current round
    reported             \* main.rs:397  the usage printed at the last turn end

decVars == <<stream, received, full_response_text, function_calls, usage_meta, events>>

orchVars == <<history, total_cost, active_cache_name, cache_contents, content_parts,
              mcp_clients, procs, request, n_requests, responses, reported>>

vars == <<ns, sch, pc, decVars, orchVars>>

None == <<>>
Some(v) == <<v>>

(***************************************************************************)
(* Bounds                                                                  *)
(***************************************************************************)
MaxNameLen == 2
MaxLines == 3
MaxChunks == 2
MaxRequests == 2  \* model requests issued in one run
MaxDepth == 3     \* levels of nesting of a tool's input schema
DepthLimit == 2   \* the nesting beyond which a schema counts as too deep
MaxStarts == 2    \* tool subprocesses spawned in one run

(***************************************************************************)
(* Generic sequence helpers                                                *)
(***************************************************************************)
RECURSIVE SeqsUpTo(_, _)
SeqsUpTo(S, n) ==
    IF n = 0 THEN {<<>>}
    ELSE LET shorter == SeqsUpTo(S, n - 1)
         IN  shorter \cup {Append(s, x) : s \in {t \in shorter : Len(t) = n - 1}, x \in S}

(***************************************************************************)
(* mcp/mapper.rs: namespacing, and main.rs:346 the dispatcher's split      *)
(***************************************************************************)
SEP == <<"_", "_">>

\* format!("{}__{}", server_name, tool.name)
Namespace(server_name, tool_name) == server_name \o SEP \o tool_name

\* the index of the first occurrence of "__" in name, 0 when there is none
FirstSep(name) ==
    LET hits == {i \in 1..(Len(name) - 1) : name[i] = "_" /\ name[i + 1] = "_"}
    IN  IF hits = {} THEN 0 ELSE CHOOSE i \in hits : \A j \in hits : i <= j

\* call.name.splitn(2, "__").collect(): one piece without a separator, else
\* the text before the first separator and all the text after it
SplitName(name) ==
    LET i == FirstSep(name)
    IN  IF i = 0 THEN <<name>>
        ELSE <<SubSeq(name, 1, i - 1), SubSeq(name, i + 2, Len(name))>>

ContainsSep(name) == FirstSep(name) # 0

NameChars == {"a", "_"}
Names == SeqsUpTo(NameChars, MaxNameLen)

NsIdle == [stage |-> "idle", server |-> <<>>, tool |-> <<>>, unique |-> <<>>, split |-> <<>>]

NsInit ==
    \E s \in Names, t \in Names :
        ns = [stage |-> "input", server |-> s, tool |-> t, unique |-> <<>>, split |-> <<>>]

\* map_mcp_tools_to_gemini builds the declaration's name
NsDeclare ==
    /\ ns.stage = "input"
    /\ ns' = [ns EXCEPT !.stage = "declared", !.unique = Namespace(ns.server, ns.tool)]

\* the dispatcher splits the name the model sends back
NsDispatch ==
    /\ ns.stage = "declared"
    /\ ns' = [ns EXCEPT !.stage = "split", !.split = SplitName(ns.unique)]

(***************************************************************************)
(* mcp/mapper.rs: the mapping of a tool's input schema.  A JSON schema is  *)
(* the record of the three members the mapper looks at: "type" (absent or  *)
(* a JSON scalar), "properties" (absent or an object: a function from      *)
(* property names to schemas) and "required" (absent or an array of JSON   *)
(* scalars).                                                               *)
(***************************************************************************)
JStr(s) == [kind |-> "string", str |-> s]
JNum == [kind |-> "number", str |-> ""]

\* serde_json Value::as_str
AsStr(v) == IF v.kind = "string" THEN Some(v.str) ELSE None

\* str::to_uppercase on the type names that occur
ToUppercase(s) ==
    CASE s = "object" -> "OBJECT"
      [] s = "string" -> "STRING"
      [] s = "null" -> "NULL"
      [] OTHER -> s

JsonSchema(t, p, r) == [type |-> t, properties |-> p, required |-> r]

PropNames == {"a", "b"}

\* the "type" and "required" members of the schemas drawn
SchemaHeads ==
    { [type |-> None, required |-> None],
      [type |-> Some(JStr("string")), required |-> None],
      [type |-> Some(JStr("null")), required |-> None],
      [type |-> Some(JStr("object")), required |-> Some(<<JStr("a")>>)],
      [type |-> Some(JNum), required |-> Some(<<JNum>>)] }

SchemaLeaves == { JsonSchema(h.type, None, h.required) : h \in SchemaHeads }

\* the schemas nested exactly d levels: below the root a chain of objects,
\* under property "a" or "b", with or without a scalar sibling
RECURSIVE SchemasOfDepth(_)
SchemasOfDepth(d) ==
    IF d = 1
    THEN SchemaLeaves
            \cup { JsonSchema(h.type, Some([k \in {} |-> k]), h.required) : h \in SchemaHeads }
    ELSE LET below == SchemasOfDepth(d - 1)
             leaf == JsonSchema(Some(JStr("string")), None, None)
             props == { [k \in {"a"} |-> c] : c \in below }
                        \cup { [k \in {"b"} |-> c] : c \in below }
                        \cup { [k \in PropNames |-> IF k = "a" THEN c ELSE leaf] : c \in below }
         IN  { JsonSchema(h.type, Some(p), h.required) : h \in SchemaHeads, p \in props }

SchemaInputs(max) == UNION { SchemasOfDepth(d) : d \in 1..max }

\* the greatest of a finite set of naturals, 0 for the empty set
MaxOver(S) ==
    IF S = {} THEN 0
    ELSE LET x == CHOOSE y \in S : \A z \in S : z <= y IN x

\* the number of levels of a schema: 1 for a schema without properties
RECURSIVE Depth(_)
Depth(input) ==
    IF input.properties = None THEN 1
    ELSE LET props == input.properties[1]
         IN  1 + MaxOver({ Depth(props[k]) : k \in DOMAIN props })

\* mapper.rs:40-50: the string entries of "required", None when there are none
RECURSIVE FilterStr(_)
FilterStr(req) ==
    IF req = <<>> THEN <<>>
    ELSE AsStr(Head(req)) \o FilterStr(Tail(req))

\* mapper.rs:25-53 map_json_schema
RECURSIVE MapJsonSchema(_)
MapJsonSchema(input) ==
    LET t == IF input.type = None THEN None ELSE AsStr(input.type[1])
        schema_type == ToUppercase(IF t = None THEN "OBJECT" ELSE t[1])
        properties ==
            IF input.properties = None THEN None
            ELSE LET props == input.properties[1]
                 IN  Some([k \in DOMAIN props |-> MapJsonSchema(props[k])])
        req_vec == IF input.required = None THEN <<>> ELSE FilterStr(input.required[1])
        required == IF req_vec = <<>> THEN None ELSE Some(req_vec)
    IN  [schema_type |-> schema_type, properties |-> properties, required |-> required]

SchIdle == [stage |-> "idle", input |-> None, output |-> None]

SchInit ==
    \E v \in SchemaInputs(MaxDepth) :
        sch = [stage |-> "input", input |-> Some(v), output |-> None]

\* mapper.rs:16: map_mcp_tools_to_gemini maps the input schema of a tool
MapSchema ==
    /\ sch.stage = "input"
    /\ sch' = [sch EXCEPT !.stage = "mapped", !.output = Some(MapJsonSchema(sch.input[1]))]

(***************************************************************************)
(* client/models.rs: Part, FunctionCall, UsageMetadata, response frames    *)
(***************************************************************************)
\* Part { text, inline_data, file_data, function_call, function_response }
Part(t, b, f, c, r) ==
    [text |-> t, inline_data |-> b, file_data |-> f, function_call |-> c,
     function_response |-> r]

\* Part::text
PartText(t) == Part(Some(t), None, None, None, None)

\* Part::inline_data
PartInlineData(mime, data) ==
    Part(None, Some([mime_type |-> mime, data |-> data]), None, None, None)

\* Part::file_data
PartFileData(mime, uri) ==
    Part(None, None, Some([mime_type |-> mime, file_uri |-> uri]), None, None)

\* main.rs:335-338
PartFunctionCall(fc) == Part(None, None, None, Some(fc), None)

\* main.rs:384-387
PartFunctionResponse(fr) == Part(None, None, None, None, Some(fr))

FS == <<"f", "s">>
DB == <<"d", "b">>
LIST == <<"l", "i", "s", "t">>
GET == <<"g", "e", "t">>

FcFsList == [name |-> Namespace(FS, LIST), args |-> "{}"]
FcDbGet == [name |-> Namespace(DB, GET), args |-> "{}"]
FcNoSep == [name |-> <<"l", "s">>, args |-> "{}"]

Usage(p, c, t) ==
    [prompt_token_count |-> p, candidates_token_count |-> c, total_token_count |-> t]

\* one candidate whose content holds the given parts
Candidate(parts) == [content |-> Some([role |-> "model", parts |-> parts])]

\* GenerateContentResponse { candidates, usage_metadata }
Response(cands, usage) == [candidates |-> cands, usage_metadata |-> usage]

\* The JSON documents the modelled service sends, by key.
FrameKeys == {"T1", "T2", "F1", "F2", "F3", "TF", "U1", "U2", "TU"}

FrameDoc(k) ==
    CASE k = "T1" -> Response(Some(<<Candidate(<<PartText("Found 1 file.")>>)>>), None)
      [] k = "T2" -> Response(Some(<<Candidate(<<PartText("Hi")>>)>>), None)
      [] k = "F1" -> Response(Some(<<Candidate(<<PartFunctionCall(FcFsList)>>)>>), None)
      [] k = "F2" -> Response(Some(<<Candidate(<<PartFunctionCall(FcDbGet)>>)>>), None)
      [] k = "F3" -> Response(Some(<<Candidate(<<PartFunctionCall(FcNoSep)>>)>>), None)
      [] k = "TF" -> Response(Some(<<Candidate(
                        <<Part(Some("Hi"), None, None, Some(FcFsList), None)>>)>>), None)
      [] k = "U1" -> Response(None, Some(Usage(10, 5, 15)))
      [] k = "U2" -> Response(None, Some(Usage(1, 1, 2)))
      [] k = "TU" -> Response(Some(<<Candidate(<<PartText("Found 1 file.")>>)>>),
                              Some(Usage(10, 5, 15)))

(***************************************************************************)
(* main.rs:287-320: the decode loop                                        *)
(***************************************************************************)
DATA == "data:"
SP == " "
LF == "LF"
DONE == "[DONE]"
DataPrefix == <<DATA, SP>>

FirstLF(s) ==
    LET hits == {i \in 1..Len(s) : s[i] = LF}
    IN  IF hits = {} THEN 0 ELSE CHOOSE i \in hits : \A j \in hits : i <= j

\* str::lines(): the pieces between line terminators; a final piece without a
\* terminator is a line, an empty final piece is not
RECURSIVE LinesOf(_)
LinesOf(s) ==
    IF s = <<>> THEN <<>>
    ELSE LET i == FirstLF(s)
         IN  IF i = 0 THEN <<s>>
             ELSE <<SubSeq(s, 1, i - 1)>> \o LinesOf(SubSeq(s, i + 1, Len(s)))

StartsWith(s, prefix) ==
    /\ Len(s) >= Len(prefix)
    /\ SubSeq(s, 1, Len(prefix)) = prefix

\* str::trim()
RECURSIVE Trim(_)
Trim(s) ==
    IF s = <<>> THEN s
    ELSE IF Head(s) = SP THEN Trim(Tail(s))
    ELSE IF s[Len(s)] = SP THEN Trim(SubSeq(s, 1, Len(s) - 1))
    ELSE s

\* serde_json::from_str::<GenerateContentResponse>: Some(document) for a whole
\* document (white space around it allowed), None for anything else
ParseJson(json_str) ==
    LET t == Trim(json_str)
    IN  IF Len(t) = 3 /\ t[1] = "{" /\ t[3] = "}" /\ t[2] \in FrameKeys
        THEN Some(FrameDoc(t[2]))
        ELSE None

Event(kind, t, c, u) == [kind |-> kind, text |-> t, call |-> c, usage |-> u]

\* the stream accumulator (main.rs:281-283) with the events produced so far
Acc(t, c, u, e) == [text |-> t, calls |-> c, usage |-> u, events |-> e]
EmptyAcc == Acc("", <<>>, None, <<>>)

\* main.rs:302-309: one part
ApplyPart(acc, part) ==
    LET a1 == IF part.text # None
              THEN [acc EXCEPT !.text = acc.text \o part.text[1],
                               !.events = Append(acc.events,
                                   Event("TextDelta", part.text, None, None))]
              ELSE acc
    IN  IF part.function_call # None
        THEN [a1 EXCEPT !.calls = Append(a1.calls, part.function_call[1]),
                        !.events = Append(a1.events,
                            Event("FunctionCallRequested", None, part.function_call, None))]
        ELSE a1

RECURSIVE ApplyParts(_, _)
ApplyParts(acc, parts) ==
    IF parts = <<>> THEN acc ELSE ApplyParts(ApplyPart(acc, Head(parts)), Tail(parts))

\* main.rs:299-312: the candidates of one document, in order
RECURSIVE ApplyCandidates(_, _)
ApplyCandidates(acc, cands) ==
    IF cands = <<>> THEN acc
    ELSE LET c == Head(cands)
             a1 == IF c.content # None THEN ApplyParts(acc, c.content[1].parts) ELSE acc
         IN  ApplyCandidates(a1, Tail(cands))

\* main.rs:297: usage metadata, when present, replaces the running value
ApplyUsage(acc, meta) ==
    [acc EXCEPT !.usage = Some(meta),
                !.events = Append(acc.events, Event("UsageReported", None, None, Some(meta)))]

\* main.rs:296-314: one parsed document
ApplyResponse(acc, response) ==
    LET a1 == IF response.usage_metadata # None
              THEN ApplyUsage(acc, response.usage_metadata[1])
              ELSE acc
    IN  IF response.candidates # None THEN ApplyCandidates(a1, response.candidates[1]) ELSE a1

\* main.rs:292-315: one line of a chunk
DecodeLine(acc, line) ==
    IF StartsWith(line, DataPrefix)
    THEN LET json_str == SubSeq(line, Len(DataPrefix) + 1, Len(line))
         IN  IF Trim(json_str) = <<DONE>> THEN acc
             ELSE LET parsed == ParseJson(json_str)
                  IN  IF parsed # None THEN ApplyResponse(acc, parsed[1]) ELSE acc
    ELSE acc

RECURSIVE DecodeLines(_, _)
DecodeLines(acc, lines) ==
    IF lines = <<>> THEN acc ELSE DecodeLines(DecodeLine(acc, Head(lines)), Tail(lines))

\* main.rs:290-316: one Ok(bytes) item of the stream, decoded on its own
DecodeChunk(acc, bytes) == DecodeLines(acc, LinesOf(bytes))

\* one frame on the wire: data: <document>
DataLine(k) == <<DATA, SP, "{", k, "}">>

ItemOk(bytes) == [ok |-> TRUE, bytes |-> bytes]
ItemErr == [ok |-> FALSE, bytes |-> <<>>]

CurAcc == Acc(full_response_text, function_calls, usage_meta, events)

\* fault variant of the decode loop: a transport error clears what the
\* chunks before it have accumulated
StreamNextClearingOnError ==
    /\ pc = "Streaming"
    /\ stream # <<>>
    /\ LET item == Head(stream)
           acc == IF item.ok THEN DecodeChunk(CurAcc, item.bytes) ELSE EmptyAcc
       IN  /\ full_response_text' = acc.text
           /\ function_calls' = acc.calls
           /\ usage_meta' = acc.usage
           /\ events' = acc.events
           /\ received' = received \o item.bytes
    /\ stream' = Tail(stream)
    /\ UNCHANGED <<ns, sch, pc, orchVars>>

\* main.rs:287-320: one turn of `while let Some(chunk_result) = stream.next()`
StreamNext ==
    /\ pc = "Streaming"
    /\ stream # <<>>
    /\ LET item == Head(stream)
           acc == IF item.ok THEN DecodeChunk(CurAcc, item.bytes) ELSE CurAcc
       IN  /\ full_response_text' = acc.text
           /\ function_calls' = acc.calls
           /\ usage_meta' = acc.usage
           /\ events' = acc.events
           /\ received' = received \o item.bytes
    /\ stream' = Tail(stream)
    /\ UNCHANGED <<ns, sch, pc, orchVars>>

(***************************************************************************)
(* mcp/client.rs: the JSON-RPC client of one tool subprocess               *)
(*                                                                         *)
(* A client is [pid, next_id].  A process is [name, state, sent, out,      *)
(* last, dropped]: state is "running" until the client kills it            *)
(* (Child::kill), then "killed"; sent is the sequence of messages written  *)
(* to its stdin; out is the lines it has written to its stdout that no     *)
(* read has taken yet; last records what the last request made to it read: *)
(* nothing (None) when the write or the read failed, else the id of the    *)
(* request and the line that was parsed and returned for it; dropped is    *)
(* the number of lines the BufReader of that read took from the pipe       *)
(* behind the line it returned, which are gone with it.  out, last and     *)
(* dropped are those of a live process: the kill closes the pipe and the   *)
(* client is gone.                                                         *)
(*                                                                         *)
(* What a process does with one request is picked by the environment:      *)
(*   "result"     it answers with a result                                 *)
(*   "error"      it answers with an error object                          *)
(*   "null"       it answers with neither result nor error                 *)
(*   "garbage"    it writes a line that is no JSON-RPC response            *)
(*   "eof"        it takes the request and closes its stdout unanswered    *)
(*   "write_fail" its stdin is closed: the write of the request fails      *)
(*   "notify"     it writes a notification of its own, then the result     *)
(* and so is whether the BufReader that read_response makes for one read   *)
(* takes the lines behind the first one out of the pipe with it (slurp).   *)
(***************************************************************************)
RpcDoes == {"result", "error", "null", "garbage", "eof", "write_fail", "notify"}

Outcome(does, slurp) == [does |-> does, slurp |-> slurp]

RpcOutcomes == {Outcome(d, b) : d \in RpcDoes, b \in BOOLEAN}

\* list_tools tells a result from everything else only, and a failed read
\* from a failed write by the wire: these are the outcomes that differ for it
ListOutcomes == {Outcome(d, b) : d \in {"result", "eof", "write_fail"}, b \in BOOLEAN}

\* a server that writes nothing but the response to each request
QuietOutcomes == {o \in RpcOutcomes : o.does # "notify"}

WriteOk(outcome) == outcome.does # "write_fail"

\* a result value: the JSON text, and the tools it names when it has the
\* shape of a ListToolsResult
Payload(tools, json) == [tools |-> tools, json |-> json]

\* what the servers of the model declare and return
ToolsOf(name) == IF name = FS THEN <<LIST>> ELSE <<GET>>
ToolsPayload(name) ==
    Payload(Some(ToolsOf(name)), IF name = FS THEN "{\"tools\":[list]}" ELSE "{\"tools\":[get]}")
ResultOf(tool) == IF tool = LIST THEN "[\"a.txt\"]" ELSE "{\"ok\":true}"
ResultPayload(tool) == Payload(None, ResultOf(tool))
InitPayload == Payload(None, "{}")

WireRequest(method, id, tool) == [method |-> method, id |-> Some(id), tool |-> tool]
WireNotification(method) == [method |-> method, id |-> None, tool |-> None]

\* one line of a server's stdout; JsonRpcResponse { id, result, error } when
\* it parses as one
Line(parses, id, result, error) ==
    [parses |-> parses, id |-> id, result |-> result, error |-> error]
GarbageLine == Line(FALSE, None, None, None)
NotificationLine == Line(TRUE, None, None, None)

\* the lines the process writes when it takes the request with this id
ServerWrites(outcome, id, payload) ==
    CASE outcome.does = "result"  -> <<Line(TRUE, Some(id), Some(payload), None)>>
      [] outcome.does = "error"   -> <<Line(TRUE, Some(id), None, Some("-32000: failed"))>>
      [] outcome.does = "null"    -> <<Line(TRUE, Some(id), None, None)>>
      [] outcome.does = "garbage" -> <<GarbageLine>>
      [] outcome.does = "eof"     -> <<>>
      [] outcome.does = "notify"  -> <<NotificationLine, Line(TRUE, Some(id), Some(payload), None)>>

\* fault variant of send_request: the id counter is not advanced
SendRequestReusingId(client, proc, method, tool, write_ok) ==
    [client |-> client,
     proc   |-> IF write_ok
                THEN [proc EXCEPT !.sent = Append(@, WireRequest(method, client.next_id, tool))]
                ELSE proc,
     ok     |-> write_ok]

\* McpClient::send_request: takes the next id, then writes the request line
SendRequest(client, proc, method, tool, write_ok) ==
    LET id == client.next_id
    IN  [client |-> [client EXCEPT !.next_id = id + 1],
         proc   |-> IF write_ok
                    THEN [proc EXCEPT !.sent = Append(@, WireRequest(method, id, tool))]
                    ELSE proc,
         ok     |-> write_ok]

\* McpClient::send_notification: writes a line without an id
SendNotification(client, proc, method, write_ok) ==
    [client |-> client,
     proc   |-> IF write_ok
                THEN [proc EXCEPT !.sent = Append(@, WireNotification(method))]
                ELSE proc,
     ok     |-> write_ok]

RpcOk(v) == [ok |-> TRUE, value |-> v]
RpcErr(e) == [ok |-> FALSE, value |-> e]

\* McpClient::read_response: a new BufReader takes the first line of the
\* process's stdout (and, when it slurps, the lines behind it, which are
\* dropped with it); the line is parsed and returned whatever id it has.
\* req_id is the id the caller has just written, kept for the record only.
ReadResponse(proc, req_id, slurp) ==
    IF proc.out = <<>>
    THEN [proc |-> [proc EXCEPT !.last = None, !.dropped = 0],
          resp |-> RpcErr("MCP Server closed connection unexpectedly")]
    ELSE LET line == Head(proc.out)
             rest == IF slurp THEN <<>> ELSE Tail(proc.out)
             lost == Len(Tail(proc.out)) - Len(rest)
         IN  IF line.parses
             THEN [proc |-> [proc EXCEPT !.out = rest, !.dropped = lost,
                                         !.last = Some([req |-> req_id, line |-> line])],
                   resp |-> RpcOk(line)]
             ELSE [proc |-> [proc EXCEPT !.out = rest, !.dropped = lost, !.last = None],
                   resp |-> RpcErr("Failed to parse MCP response")]

\* send_request(..)?; read_response()? as the callers chain them, with what
\* the process writes in between
RoundTrip(client, proc, method, tool, result, outcome) ==
    LET sent == SendRequest(client, proc, method, tool, WriteOk(outcome))
    IN  IF ~sent.ok
        THEN [client |-> sent.client,
              proc |-> [sent.proc EXCEPT !.last = None, !.dropped = 0],
              resp |-> RpcErr("Broken pipe")]
        ELSE LET served == [sent.proc EXCEPT
                               !.out = @ \o ServerWrites(outcome, client.next_id, result)]
                 read == ReadResponse(served, client.next_id, outcome.slurp)
             IN  [client |-> sent.client, proc |-> read.proc, resp |-> read.resp]

\* McpClient::list_tools
ListTools(client, proc, outcome) ==
    LET rt == RoundTrip(client, proc, "tools/list", None, ToolsPayload(proc.name), outcome)
    IN  [client |-> rt.client,
         proc   |-> rt.proc,
         ret    |-> IF ~rt.resp.ok THEN rt.resp
                    ELSE IF rt.resp.value.result # None
                         THEN IF rt.resp.value.result[1].tools # None
                              THEN RpcOk(rt.resp.value.result[1].tools[1])
                              ELSE RpcErr("missing field tools")
                         ELSE RpcErr("No result in list_tools response")]

\* fault variant of call_tool: the result of the response is dropped
CallToolDroppingResult(client, proc, name, args, outcome) ==
    LET rt == RoundTrip(client, proc, "tools/call", Some(name), ResultPayload(name), outcome)
    IN  [client |-> rt.client, proc |-> rt.proc, ret |-> RpcOk("null")]

\* McpClient::call_tool
CallTool(client, proc, name, args, outcome) ==
    LET rt == RoundTrip(client, proc, "tools/call", Some(name), ResultPayload(name), outcome)
    IN  [client |-> rt.client,
         proc   |-> rt.proc,
         ret    |-> IF ~rt.resp.ok THEN rt.resp
                    ELSE IF rt.resp.value.error # None
                         THEN RpcErr("MCP Error " \o rt.resp.value.error[1])
                         ELSE IF rt.resp.value.result # None
                              THEN RpcOk(rt.resp.value.result[1].json)
                              ELSE RpcOk("null")]

\* fault variant of Drop: the child is left as it is
KillNothing(proc) == proc

\* impl Drop for McpClient: kill the child
Kill(proc) ==
    IF proc.state = "running"
    THEN [proc EXCEPT !.state = "killed", !.out = <<>>, !.last = None, !.dropped = 0]
    ELSE proc

\* McpClient::initialize on a freshly spawned child
Initialize(client, proc, outcome, notify_ok) ==
    LET rt == RoundTrip(client, proc, "initialize", None, InitPayload, outcome)
        nt == SendNotification(rt.client, rt.proc, "notifications/initialized", notify_ok)
    IN  IF ~rt.resp.ok THEN [client |-> rt.client, proc |-> rt.proc, ok |-> FALSE]
        ELSE [client |-> nt.client,
              proc   |-> nt.proc,
              ok     |-> nt.ok]

(***************************************************************************)
(* chat/session.rs                                                         *)
(***************************************************************************)
\* ChatMessage { role, parts } (the timestamp is not modelled)
Message(role, parts) == [role |-> role, parts |-> parts]

\* fault variant of add_user_message: the message is put in front
AddUserMessageInFront(h, text) == <<Message("user", <<PartText(text)>>)>> \o h

\* ChatSession::add_user_message
AddUserMessage(h, text) == Append(h, Message("user", <<PartText(text)>>))

\* fault variant of add_model_message: the message is pushed twice
AddModelMessageTwice(h, text) ==
    Append(Append(h, Message("model", <<PartText(text)>>)), Message("model", <<PartText(text)>>))

\* ChatSession::add_model_message
AddModelMessage(h, text) == Append(h, Message("model", <<PartText(text)>>))

\* ChatSession::add_message
AddMessage(h, role, parts) == Append(h, Message(role, parts))

\* ChatSession::to_gemini_history: Content { role, parts } of each message
ToGeminiHistory(h) == [i \in 1..Len(h) |-> [role |-> h[i].role, parts |-> h[i].parts]]

\* ChatSession::clear
ClearedHistory == <<>>

(***************************************************************************)
(* main.rs: the REPL loop and the agent loop                               *)
(***************************************************************************)
ModelName == "gemini-2.0-flash"
SystemInstruction == Some("be brief")
CacheName == "cachedContents/1"

ServerNames == {FS, DB}

\* what parse_input makes of the lines a user types, with the part each
\* attached file becomes (main.rs:177-229)
PngPart == PartInlineData("image/png", "iVBORw0=")
UserInputs ==
    { [text |-> "list files", cache_action |-> None, files |-> <<>>],
      [text |-> "list files", cache_action |-> Some("now"), files |-> <<>>],
      [text |-> "", cache_action |-> Some("off"), files |-> <<PngPart>>] }

\* the reply streams the modelled service sends
Replies ==
    { <<ItemOk(DataLine("F1") \o <<LF>> \o DataLine("F2") \o <<LF>>)>>,
      <<ItemOk(DataLine("TU") \o <<LF>>)>>,
      <<ItemOk(DataLine("T2") \o <<LF>>), ItemOk(DataLine("F2") \o <<LF>>)>>,
      <<ItemOk(DataLine("TF") \o <<LF>> \o DataLine("F3") \o <<LF>>), ItemErr,
        ItemOk(DataLine("U2") \o <<LF>>)>>,
      <<ItemOk(<<DATA, SP, "{">>), ItemOk(<<"T1", "}", LF>>)>>,
      <<>> }

HasCalls(reply) ==
    LET RECURSIVE Dec(_, _)
        Dec(acc, items) ==
            IF items = <<>> THEN acc
            ELSE Dec(IF Head(items).ok THEN DecodeChunk(acc, Head(items).bytes) ELSE acc,
                     Tail(items))
    IN  Dec(EmptyAcc, reply).calls # <<>>

NoCallReplies == {reply \in Replies : ~HasCalls(reply)}

Put(map, key, val) == [k \in DOMAIN map \cup {key} |-> IF k = key THEN val ELSE map[k]]

Orders(S) ==
    {f \in [1..Cardinality(S) -> S] : \A i, j \in 1..Cardinality(S) : f[i] = f[j] => i = j}

\* main.rs:281-283: a fresh stream accumulator
DecoderFresh ==
    /\ received = <<>>
    /\ full_response_text = ""
    /\ function_calls = <<>>
    /\ usage_meta = None
    /\ events = <<>>

\* main.rs:79-103: the state main() sets up before its loop
OrchFresh ==
    /\ history = <<>>
    /\ total_cost = 0
    /\ active_cache_name = None
    /\ cache_contents = None
    /\ content_parts = <<>>
    /\ mcp_clients = <<>>
    /\ procs = <<>>
    /\ request = None
    /\ n_requests = 0
    /\ responses = <<>>
    /\ reported = None

\* main.rs:43-107: the state when the main loop is entered
Init ==
    /\ ns = NsIdle
    /\ sch = SchIdle
    /\ pc = "AwaitingUserInput"
    /\ stream = <<>>
    /\ DecoderFresh
    /\ OrchFresh

\* fault variant of the accumulators of a pass: the usage metadata outlives
\* the pass (as if usage_meta were declared outside the loop)
AccumulatorsFreshKeepingUsage ==
    /\ received' = <<>>
    /\ full_response_text' = ""
    /\ function_calls' = <<>>
    /\ usage_meta' = usage_meta
    /\ events' = <<>>

\* main.rs:281-283: the accumulators of one pass of the agent loop are new in
\* every pass
AccumulatorsFresh ==
    /\ received' = <<>>
    /\ full_response_text' = ""
    /\ function_calls' = <<>>
    /\ usage_meta' = None
    /\ events' = <<>>

\* the locals of one pass of the agent loop (main.rs:281-283, 342) and of one
\* turn (main.rs:171, 260) once they are out of scope
TurnLocalsDropped ==
    /\ stream' = <<>>
    /\ received' = <<>>
    /\ full_response_text' = ""
    /\ function_calls' = <<>>
    /\ usage_meta' = None
    /\ events' = <<>>
    /\ responses' = <<>>
    /\ content_parts' = <<>>
    /\ request' = None

\* fault variant of /mcp start: the client an insert replaces is kept alive
\* (as if the old entry were forgotten instead of dropped)
McpStartWithLeakingOld(name, spawned, outcome, notify_ok) ==
    /\ pc = "AwaitingUserInput"
    /\ IF ~spawned
       THEN UNCHANGED <<mcp_clients, procs>>
       ELSE LET pid == Len(procs) + 1
                child == [name |-> name, state |-> "running", sent |-> <<>>,
                          out |-> <<>>, last |-> None, dropped |-> 0]
                init == Initialize([pid |-> pid, next_id |-> 1], child, outcome, notify_ok)
            IN  IF init.ok
                THEN /\ mcp_clients' = Put(mcp_clients, name, init.client)
                     /\ procs' = Append(procs, init.proc)
                ELSE /\ procs' = Append(procs, Kill(init.proc))
                     /\ UNCHANGED mcp_clients
    /\ UNCHANGED <<ns, sch, pc, decVars, history, total_cost, active_cache_name, cache_contents,
                   content_parts, request, n_requests, responses, reported>>

\* commands.rs:143-156 with McpClient::new: /mcp start <name> <cmd>
McpStartWith(name, spawned, outcome, notify_ok) ==
    /\ pc = "AwaitingUserInput"
    /\ IF ~spawned
       THEN UNCHANGED <<mcp_clients, procs>>
       ELSE LET pid == Len(procs) + 1
                child == [name |-> name, state |-> "running", sent |-> <<>>,
                          out |-> <<>>, last |-> None, dropped |-> 0]
                init == Initialize([pid |-> pid, next_id |-> 1], child, outcome, notify_ok)
            IN  IF init.ok
                THEN /\ mcp_clients' = Put(mcp_clients, name, init.client)
                     /\ procs' = [p \in 1..pid |->
                           IF p = pid THEN init.proc
                           ELSE IF name \in DOMAIN mcp_clients /\ mcp_clients[name].pid = p
                                THEN Kill(procs[p])
                                ELSE procs[p]]
                ELSE /\ procs' = Append(procs, Kill(init.proc))
                     /\ UNCHANGED mcp_clients
    /\ UNCHANGED <<ns, sch, pc, decVars, history, total_cost, active_cache_name, cache_contents,
                   content_parts, request, n_requests, responses, reported>>

\* what a new server does with initialize; the slurp is a choice only where
\* it writes a line behind the first
StartOutcomes == {o \in RpcOutcomes : o.slurp => o.does = "notify"}

\* the choices of one /mcp start that differ in what they lead to: what the
\* child does matters only if it was spawned, whether the notification can
\* be written only if the response to initialize was read
StartChoices(outcomes) ==
    {c \in [spawned : BOOLEAN, outcome : outcomes, notify_ok : BOOLEAN] :
        /\ ~c.spawned => (c.outcome = Outcome("result", FALSE) /\ c.notify_ok)
        /\ ~c.notify_ok => c.outcome.does \in {"result", "error", "null", "notify"}}

McpStart ==
    /\ pc = "AwaitingUserInput"
    /\ Len(procs) < MaxStarts
    /\ \E name \in ServerNames, c \in StartChoices(StartOutcomes) :
           McpStartWith(name, c.spawned, c.outcome, c.notify_ok)

\* fault variant of /clear: the cache handle is dropped with the history
ClearDroppingCache ==
    /\ pc = "AwaitingUserInput"
    /\ history # ClearedHistory
    /\ history' = ClearedHistory
    /\ total_cost' = 0
    /\ active_cache_name' = None
    /\ cache_contents' = None
    /\ UNCHANGED <<ns, sch, pc, decVars, content_parts, mcp_clients, procs, request,
                   n_requests, responses, reported>>

\* commands.rs:46-49: /clear
Clear ==
    /\ pc = "AwaitingUserInput"
    /\ history # ClearedHistory
    /\ history' = ClearedHistory
    /\ total_cost' = 0
    /\ UNCHANGED <<ns, sch, pc, decVars, active_cache_name, cache_contents, content_parts,
                   mcp_clients, procs, request, n_requests, responses, reported>>

\* main.rs:129, 413-417 and 421: /exit, end of input or a read error leave the
\* loop; main returns and everything it owns is dropped, mcp_clients included
Exit ==
    /\ pc = "AwaitingUserInput"
    /\ pc' = "Exited"
    /\ procs' = [p \in DOMAIN procs |->
                    IF \E n \in DOMAIN mcp_clients : mcp_clients[n].pid = p
                    THEN Kill(procs[p]) ELSE procs[p]]
    /\ mcp_clients' = <<>>
    /\ history' = <<>>
    /\ active_cache_name' = None
    /\ cache_contents' = None
    /\ UNCHANGED <<ns, sch, decVars, total_cost, content_parts, request, n_requests,
                   responses, reported>>

\* main.rs:135-231: a line that is no command: the cache action, the parts of
\* the message, and the user message appended to the history
UserTurnWith(input, cache_ok, files_ok) ==
    /\ pc = "AwaitingUserInput"
    /\ IF input.cache_action = Some("now")
       THEN IF cache_ok
            THEN /\ active_cache_name' = Some(CacheName)
                 /\ cache_contents' = Some(ToGeminiHistory(history))
            ELSE UNCHANGED <<active_cache_name, cache_contents>>
       ELSE IF input.cache_action = Some("off")
       THEN /\ active_cache_name' = None
            /\ cache_contents' = None
       ELSE UNCHANGED <<active_cache_name, cache_contents>>
    /\ content_parts' =
          (IF input.text # "" THEN <<PartText(input.text)>> ELSE <<>>)
          \o (IF files_ok THEN input.files ELSE <<>>)
    /\ history' = AddUserMessage(history, input.text)
    /\ pc' = "BuildingRequest"
    /\ UNCHANGED <<ns, sch, decVars, total_cost, mcp_clients, procs, request, n_requests,
                   responses, reported>>

\* the choices of one turn that differ in what they lead to: whether the
\* cache can be created matters only if it is asked for, whether the files
\* can be read only if there are any
TurnChoices ==
    {c \in [input : UserInputs, cache_ok : BOOLEAN, files_ok : BOOLEAN] :
        /\ ~c.cache_ok => c.input.cache_action = Some("now")
        /\ ~c.files_ok => c.input.files # <<>>}

UserTurn ==
    /\ pc = "AwaitingUserInput"
    /\ n_requests < MaxRequests
    /\ \E c \in TurnChoices : UserTurnWith(c.input, c.cache_ok, c.files_ok)

\* mapper.rs:6-23: the declarations of one server (the schema of a tool is
\* mapped by MapJsonSchema)
MapMcpToolsToGemini(server_name, mcp_tools) ==
    [function_declarations |->
        [i \in 1..Len(mcp_tools) |-> [name |-> Namespace(server_name, mcp_tools[i])]]]

\* main.rs:237: list_tools on one registered client; outs gives the outcome
\* of each server's request
ListOne(name, outs) == ListTools(mcp_clients[name], procs[mcp_clients[name].pid], outs[name])

\* fault variant of the gathering of the declarations: it stops at the first
\* server whose list_tools fails
RECURSIVE GatherToolsUntilFailure(_, _)
GatherToolsUntilFailure(order, outs) ==
    IF order = <<>> THEN <<>>
    ELSE LET l == ListOne(Head(order), outs)
         IN  IF l.ret.ok
             THEN <<MapMcpToolsToGemini(Head(order), l.ret.value)>>
                  \o GatherToolsUntilFailure(Tail(order), outs)
             ELSE <<>>

\* main.rs:235-240: the declarations of the servers whose list_tools
\* succeeded, in the order the HashMap yields the clients
RECURSIVE GatherTools(_, _)
GatherTools(order, outs) ==
    IF order = <<>> THEN <<>>
    ELSE LET l == ListOne(Head(order), outs)
         IN  (IF l.ret.ok THEN <<MapMcpToolsToGemini(Head(order), l.ret.value)>> ELSE <<>>)
             \o GatherTools(Tail(order), outs)

\* fault variant of the request: the cache handle is ignored
BuildRequestRecordIgnoringCache(gemini_tools) ==
    [contents |-> ToGeminiHistory(history),
     model |-> ModelName,
     system_instruction |->
         IF SystemInstruction # None
         THEN Some([role |-> "user", parts |-> <<PartText(SystemInstruction[1])>>])
         ELSE None,
     tools |-> IF gemini_tools = <<>> THEN None ELSE Some(gemini_tools)]

\* main.rs:243-276: GenerateContentRequest (the generation config is not modelled)
BuildRequestRecord(gemini_tools) ==
    [contents |-> IF active_cache_name # None
                  THEN <<[role |-> "user", parts |-> content_parts]>>
                  ELSE ToGeminiHistory(history),
     model |-> IF active_cache_name # None THEN active_cache_name[1] ELSE ModelName,
     system_instruction |->
         IF active_cache_name # None THEN None
         ELSE IF SystemInstruction # None
              THEN Some([role |-> "user", parts |-> <<PartText(SystemInstruction[1])>>])
              ELSE None,
     tools |-> IF gemini_tools = <<>> THEN None ELSE Some(gemini_tools)]

\* main.rs:235-326: one pass of the agent loop up to the opening of the
\* stream; opened = FALSE is stream_generate_content returning Err
BuildRequestWith(order, outs, opened, reply) ==
    /\ pc = "BuildingRequest"
    /\ mcp_clients' = [n \in DOMAIN mcp_clients |-> ListOne(n, outs).client]
    /\ procs' = [p \in DOMAIN procs |->
          IF \E n \in DOMAIN mcp_clients : mcp_clients[n].pid = p
          THEN ListOne(CHOOSE n \in DOMAIN mcp_clients : mcp_clients[n].pid = p, outs).proc
          ELSE procs[p]]
    /\ n_requests' = n_requests + 1
    /\ IF opened
       THEN /\ request' = Some(BuildRequestRecord(GatherTools(order, outs)))
            /\ stream' = reply
            /\ pc' = "Streaming"
            /\ AccumulatorsFresh
            /\ UNCHANGED <<content_parts, responses>>
       ELSE /\ pc' = "AwaitingUserInput"
            /\ TurnLocalsDropped
    /\ UNCHANGED <<ns, sch, history, total_cost, active_cache_name, cache_contents, reported>>

\* what each registered server does with the tools/list of this pass; the
\* slurp is a choice only where lines lie in the pipe behind the first
ListOutcomesNow ==
    {outs \in [DOMAIN mcp_clients -> ListOutcomes] :
        \A n \in DOMAIN mcp_clients : outs[n].slurp => procs[mcp_clients[n].pid].out # <<>>}

\* the replies the service may send to the next request: one that asks for
\* tools only while the run may still issue the follow-up request
RepliesNow == IF n_requests + 1 < MaxRequests THEN Replies ELSE NoCallReplies

BuildRequest ==
    /\ pc = "BuildingRequest"
    /\ \E order \in Orders(DOMAIN mcp_clients), outs \in ListOutcomesNow,
          opened \in BOOLEAN, reply \in RepliesNow :
           /\ ~opened => reply = <<>>
           /\ BuildRequestWith(order, outs, opened, reply)

\* fault variant of the model message of a tool round: the text and the
\* first call share one part, as they may in a streamed part
ModelPartsMerged(text, calls) ==
    IF text # ""
    THEN <<Part(Some(text), None, None, Some(calls[1]), None)>>
         \o [i \in 1..(Len(calls) - 1) |-> PartFunctionCall(calls[i + 1])]
    ELSE [i \in 1..Len(calls) |-> PartFunctionCall(calls[i])]

\* fault variant of the model message of a tool round: only the first call
\* is kept
ModelPartsFirstCallOnly(text, calls) ==
    (IF text # "" THEN <<PartText(text)>> ELSE <<>>) \o <<PartFunctionCall(calls[1])>>

\* fault variant of the model message of a tool round: the calls are left out
ModelPartsTextOnly(text, calls) == IF text # "" THEN <<PartText(text)>> ELSE <<>>

\* main.rs:330-339: the parts of the model message of a tool round
ModelParts(text, calls) ==
    (IF text # "" THEN <<PartText(text)>> ELSE <<>>)
    \o [i \in 1..Len(calls) |-> PartFunctionCall(calls[i])]

\* fault variant of the branch after the stream: the calls are never seen
ToolsRequestedNever(calls) == FALSE

\* fault variant of the branch after the stream: every reply is taken as a
\* tool round, the one without calls too
ToolsRequestedAlways(calls) == TRUE

\* main.rs:329: if !function_calls.is_empty()
ToolsRequested(calls) == calls # <<>>

\* main.rs:320-341 and 392-410: the stream has ended
StreamEnd ==
    /\ pc = "Streaming"
    /\ stream = <<>>
    /\ IF ToolsRequested(function_calls)
       THEN /\ history' = AddMessage(history, "model",
                                     ModelParts(full_response_text, function_calls))
            /\ pc' = "DispatchingTools"
            /\ responses' = <<>>
            /\ UNCHANGED <<decVars, content_parts, request, reported>>
       ELSE /\ history' = IF full_response_text # ""
                          THEN AddModelMessage(history, full_response_text)
                          ELSE history
            /\ reported' = usage_meta
            /\ pc' = "AwaitingUserInput"
            /\ TurnLocalsDropped
    /\ UNCHANGED <<ns, sch, total_cost, active_cache_name, cache_contents, mcp_clients, procs,
                   n_requests>>

\* FunctionResponse { name, response: json!({ key: value }) }
FunctionResponse(name, key, value) ==
    [name |-> name, response |-> [key |-> key, value |-> value]]

\* fault variant of the function message: the responses in reverse order
ResponsePartsReversed(frs) ==
    [i \in 1..Len(frs) |-> PartFunctionResponse(frs[Len(frs) + 1 - i])]

\* main.rs:382-389: the parts of the function message of a round
ResponseParts(frs) == [i \in 1..Len(frs) |-> PartFunctionResponse(frs[i])]

\* fault variant of the dispatch of one call: no registry lookup, every call
\* is answered as if its name had no separator
DispatchOneNoLookup(call, outcome) ==
    [clients |-> mcp_clients, procs |-> procs,
     fr |-> FunctionResponse(call.name, "error", "Invalid tool name format")]

\* fault variant of the dispatch of one call: what call_tool returns is
\* recorded as a result whether it is Ok or Err
DispatchOneErrAsResult(call, outcome) ==
    LET parts == SplitName(call.name)
    IN  IF Len(parts) = 2
        THEN IF parts[1] \in DOMAIN mcp_clients
             THEN LET client == mcp_clients[parts[1]]
                      r == CallTool(client, procs[client.pid], parts[2], call.args, outcome)
                  IN  [clients |-> [mcp_clients EXCEPT ![parts[1]] = r.client],
                       procs   |-> [procs EXCEPT ![client.pid] = r.proc],
                       fr      |-> FunctionResponse(call.name, "result", r.ret.value)]
             ELSE [clients |-> mcp_clients, procs |-> procs,
                   fr |-> FunctionResponse(call.name, "error", "MCP Server not found")]
        ELSE [clients |-> mcp_clients, procs |-> procs,
              fr |-> FunctionResponse(call.name, "error", "Invalid tool name format")]

\* fault variant of the dispatch of one call: the number of pieces of the
\* name is not checked, a name without separator is looked up as a server
DispatchOneNoFormatCheck(call, outcome) ==
    LET parts == SplitName(call.name)
    IN  IF Len(parts) = 2 /\ parts[1] \in DOMAIN mcp_clients
        THEN LET client == mcp_clients[parts[1]]
                 r == CallTool(client, procs[client.pid], parts[2], call.args, outcome)
             IN  [clients |-> [mcp_clients EXCEPT ![parts[1]] = r.client],
                  procs   |-> [procs EXCEPT ![client.pid] = r.proc],
                  fr      |-> FunctionResponse(call.name,
                                  IF r.ret.ok THEN "result" ELSE "error", r.ret.value)]
        ELSE [clients |-> mcp_clients, procs |-> procs,
              fr |-> FunctionResponse(call.name, "error", "MCP Server not found")]

\* main.rs:346-379: the response to one call, with the client and process
\* after it; outcome is what the server does if it is asked
DispatchOne(call, outcome) ==
    LET parts == SplitName(call.name)
    IN  IF Len(parts) = 2
        THEN IF parts[1] \in DOMAIN mcp_clients
             THEN LET client == mcp_clients[parts[1]]
                      r == CallTool(client, procs[client.pid], parts[2], call.args, outcome)
                  IN  [clients |-> [mcp_clients EXCEPT ![parts[1]] = r.client],
                       procs   |-> [procs EXCEPT ![client.pid] = r.proc],
                       fr      |-> FunctionResponse(call.name,
                                       IF r.ret.ok THEN "result" ELSE "error", r.ret.value)]
             ELSE [clients |-> mcp_clients, procs |-> procs,
                   fr |-> FunctionResponse(call.name, "error", "MCP Server not found")]
        ELSE [clients |-> mcp_clients, procs |-> procs,
              fr |-> FunctionResponse(call.name, "error", "Invalid tool name format")]

\* main.rs:343-390: the next call of the round; after the last one the
\* function message is appended and the loop continues
DispatchCallWith(outcome) ==
    /\ pc = "DispatchingTools"
    /\ Len(responses) < Len(function_calls)
    /\ LET d == DispatchOne(function_calls[Len(responses) + 1], outcome)
       IN  /\ mcp_clients' = d.clients
           /\ procs' = d.procs
           /\ IF Len(responses) + 1 = Len(function_calls)
              THEN /\ history' = AddMessage(history, "function",
                                            ResponseParts(Append(responses, d.fr)))
                   /\ pc' = "BuildingRequest"
                   /\ responses' = <<>>
                   /\ AccumulatorsFresh
              ELSE /\ responses' = Append(responses, d.fr)
                   /\ UNCHANGED <<history, pc, function_calls, full_response_text,
                                  usage_meta, events, received>>
    /\ UNCHANGED <<ns, sch, stream, total_cost, active_cache_name, cache_contents,
                   content_parts, request, n_requests, reported>>

\* what the server does with the tools/call; the slurp is a choice only
\* where lines lie in a pipe behind the first
CallOutcomesNow ==
    {o \in QuietOutcomes : o.slurp => \E p \in DOMAIN procs : procs[p].out # <<>>}

DispatchCall ==
    /\ pc = "DispatchingTools"
    /\ \E outcome \in CallOutcomesNow : DispatchCallWith(outcome)

Next ==
    \/ McpStart
    \/ Clear
    \/ Exit
    \/ UserTurn
    \/ BuildRequest
    \/ StreamNext
    \/ StreamEnd
    \/ DispatchCall

Spec == Init /\ [][Next]_vars

(***************************************************************************)
(* Specification of the namespacing round trip alone                       *)
(***************************************************************************)
NsVars == <<sch, pc, decVars, orchVars>>

InitNs == NsInit /\ sch = SchIdle /\ pc = "Idle" /\ stream = <<>> /\ DecoderFresh /\ OrchFresh

NextNs ==
    \/ NsDeclare /\ UNCHANGED NsVars
    \/ NsDispatch /\ UNCHANGED NsVars

SpecNs == InitNs /\ [][NextNs]_vars

(***************************************************************************)
(* Specification of the schema mapping alone: every input schema of at     *)
(* most MaxDepth levels, mapped once.                                      *)
(***************************************************************************)
SchVars == <<ns, pc, decVars, orchVars>>

InitSchema ==
    /\ SchInit
    /\ ns = NsIdle
    /\ pc = "Idle"
    /\ stream = <<>>
    /\ DecoderFresh
    /\ OrchFresh

NextSchema == MapSchema /\ UNCHANGED SchVars

SpecSchema == InitSchema /\ [][NextSchema]_vars

(***************************************************************************)
(* Specification of the decode loop alone: every stream of at most         *)
(* MaxLines lines, cut into at most MaxChunks chunks at any byte.          *)
(***************************************************************************)
DecLines ==
    { DataLine("T1"), DataLine("F1"), DataLine("U1"), DataLine("U2"),
      <<DATA, SP, "{", "T2">>,             \* a truncated document
      <<DATA, SP, "{", "T2", "}", "x">>,   \* a document followed by garbage
      <<DATA, SP, DONE>> }

RECURSIVE JoinLines(_)
JoinLines(lines) ==
    IF lines = <<>> THEN <<>> ELSE Head(lines) \o <<LF>> \o JoinLines(Tail(lines))

\* the ways of cutting bytes into at most k non-empty chunks
RECURSIVE Chunkings(_, _)
Chunkings(bytes, k) ==
    IF bytes = <<>> THEN {<<>>}
    ELSE {<<ItemOk(bytes)>>} \cup
         (IF k <= 1 THEN {}
          ELSE UNION { { <<ItemOk(SubSeq(bytes, 1, i))>> \o rest :
                           rest \in Chunkings(SubSeq(bytes, i + 1, Len(bytes)), k - 1) } :
                       i \in 1..(Len(bytes) - 1) })

\* the streams of at most n lines cut into at most k chunks
DecStreams(n, k) ==
    UNION { Chunkings(JoinLines(lines), k) : lines \in SeqsUpTo(DecLines, n) }

InitDec ==
    /\ ns = NsIdle
    /\ sch = SchIdle
    /\ pc = "Streaming"
    /\ stream \in DecStreams(MaxLines, MaxChunks)
    /\ DecoderFresh
    /\ OrchFresh

NextDec == StreamNext

SpecDec == InitDec /\ [][NextDec]_vars

StreamDone == pc = "Streaming" /\ stream = <<>>

(***************************************************************************)
(* Specification of the tool round trip with servers whose tools return a  *)
(* result: the whole program, every tools/call answered with a result, by  *)
(* servers that write nothing to stdout but the response to each request   *)
(***************************************************************************)
DispatchCallOk ==
    /\ pc = "DispatchingTools"
    /\ DispatchCallWith(Outcome("result", FALSE))

\* /mcp start of a server that writes nothing but one response per request
McpStartQuiet ==
    /\ pc = "AwaitingUserInput"
    /\ Len(procs) < MaxStarts
    /\ \E name \in ServerNames, c \in StartChoices(QuietOutcomes \cap StartOutcomes) :
           McpStartWith(name, c.spawned, c.outcome, c.notify_ok)

NextToolOk ==
    \/ McpStartQuiet
    \/ Clear
    \/ Exit
    \/ UserTurn
    \/ BuildRequest
    \/ StreamNext
    \/ StreamEnd
    \/ DispatchCallOk

SpecToolOk == Init /\ [][NextToolOk]_vars

(***************************************************************************)
(* Specification of the turns with the scheduling of the control thread:   *)
(* servers that write one line per request are started, turns are made,    *)
(* and every request, stream item and tool call may succeed or fail.  main *)
(* runs on one thread that takes its next step whenever it has one (a      *)
(* request returns, a stream yields its next item or ends, a tool call     *)
(* returns); the user's steps are not forced.  TurnFairness is weak        *)
(* fairness of the steps of a turn, WF_vars(TurnStep), written out with    *)
(* the guard of TurnStep in the place of ENABLED <<TurnStep>>_vars: a step *)
(* from a state inside a turn can only be a step of TurnStep.              *)
(***************************************************************************)
InTurn == pc \in {"BuildingRequest", "Streaming", "DispatchingTools"}

TurnStep == BuildRequest \/ StreamNext \/ StreamEnd \/ DispatchCall

\* the guards of BuildRequest, StreamNext or StreamEnd, and DispatchCall
TurnStepEnabled ==
    \/ pc = "BuildingRequest"
    \/ pc = "Streaming"
    \/ pc = "DispatchingTools" /\ Len(responses) < Len(function_calls)

TurnFairness == []<>(~TurnStepEnabled) \/ []<><<InTurn>>_vars

NextLive ==
    \/ McpStartQuiet
    \/ UserTurn
    \/ BuildRequest
    \/ StreamNext
    \/ StreamEnd
    \/ DispatchCall

SpecLive == Init /\ [][NextLive]_vars /\ TurnFairness

(***************************************************************************)
(* Specification of the scripted scenario: empty history, server fs        *)
(* registered, the user sends "list files", the first reply is one chunk   *)
(* with the call fs__list, the second one chunk with the text and the      *)
(* usage block; the tool returns its result and the servers write nothing  *)
(* but responses.  Which other servers run, what list_tools yields and the *)
(* order of the registry are left open.                                    *)
(***************************************************************************)
ScriptedInput == [text |-> "list files", cache_action |-> None, files |-> <<>>]
ScriptedReply1 == <<ItemOk(DataLine("F1") \o <<LF>>)>>
ScriptedReply2 == <<ItemOk(DataLine("TU") \o <<LF>>)>>

ScenarioStart ==
    /\ pc = "AwaitingUserInput"
    /\ Len(procs) < MaxStarts
    /\ \E name \in ServerNames, outcome \in QuietOutcomes \cap StartOutcomes,
          notify_ok \in BOOLEAN :
           McpStartWith(name, TRUE, outcome, notify_ok)

ScenarioUser ==
    /\ pc = "AwaitingUserInput"
    /\ history = <<>>
    /\ n_requests = 0
    /\ FS \in DOMAIN mcp_clients
    /\ UserTurnWith(ScriptedInput, TRUE, TRUE)

ScenarioBuild ==
    /\ pc = "BuildingRequest"
    /\ \E order \in Orders(DOMAIN mcp_clients), outs \in ListOutcomesNow :
           BuildRequestWith(order, outs, TRUE,
                            IF n_requests = 0 THEN ScriptedReply1 ELSE ScriptedReply2)

NextScenario ==
    \/ ScenarioStart
    \/ ScenarioUser
    \/ ScenarioBuild
    \/ StreamNext
    \/ StreamEnd
    \/ DispatchCallOk

SpecScenario == Init /\ [][NextScenario]_vars

ScenarioDone == pc = "AwaitingUserInput" /\ n_requests = 2

(***************************************************************************)
(* Properties of the lines of the whole stream, whatever the chunking      *)
(***************************************************************************)
WholeLines == LinesOf(received)

IsDataLine(line) == StartsWith(line, DataPrefix)

JsonOf(line) == SubSeq(line, Len(DataPrefix) + 1, Len(line))

IsSentinel(line) == IsDataLine(line) /\ Trim(JsonOf(line)) = <<DONE>>

IsValidFrame(line) == IsDataLine(line) /\ ~IsSentinel(line) /\ ParseJson(JsonOf(line)) # None

IsMalformed(line) == IsDataLine(line) /\ ~IsSentinel(line) /\ ParseJson(JsonOf(line)) = None

RECURSIVE SelectNotMalformed(_)
SelectNotMalformed(lines) ==
    IF lines = <<>> THEN <<>>
    ELSE IF IsMalformed(Head(lines)) THEN SelectNotMalformed(Tail(lines))
    ELSE <<Head(lines)>> \o SelectNotMalformed(Tail(lines))

\* the usage metadata of the last frame of lines that carries any
RECURSIVE LastUsage(_)
LastUsage(lines) ==
    IF lines = <<>> THEN None
    ELSE LET l == lines[Len(lines)]
             doc == ParseJson(JsonOf(l))
         IN  IF IsValidFrame(l) /\ doc[1].usage_metadata # None
             THEN doc[1].usage_metadata
             ELSE LastUsage(SubSeq(lines, 1, Len(lines) - 1))

(***************************************************************************)
(* Claims                                                                  *)
(***************************************************************************)

\* C1: for every server name S and tool name T without the substring "__",
\* splitting S + "__" + T at the first "__" gives back exactly (S, T).
C1_NamespaceRoundTrip ==
    (ns.stage = "split" /\ ~ContainsSep(ns.server) /\ ~ContainsSep(ns.tool))
        => ns.split = <<ns.server, ns.tool>>

\* C2: whatever the cutting of the byte stream into chunks, the decoder yields
\* the events (and accumulated text, calls and usage) of the uncut stream.
C2_ChunkingIndependent ==
    StreamDone => CurAcc = DecodeChunk(EmptyAcc, received)

\* C7: a stream with exactly one malformed data: line among valid lines
\* yields the events of the valid lines, in order, and nothing else.
C7_MalformedLineSkipped ==
    (StreamDone /\ Cardinality({i \in DOMAIN WholeLines : IsMalformed(WholeLines[i])}) = 1)
        => events = DecodeLines(EmptyAcc, SelectNotMalformed(WholeLines)).events

\* C8: at the end of a stream the usage held is that of the last frame of the
\* stream that carried usage metadata (none if no frame carried any).
C8_UsageIsLastReported ==
    StreamDone => usage_meta = LastUsage(WholeLines)

\* the call at the head of the round's remaining calls, and its split name
NextCall == function_calls[Len(responses) + 1]

Registered(call) ==
    LET parts == SplitName(call.name)
    IN  Len(parts) = 2 /\ parts[1] \in DOMAIN mcp_clients

Unregistered(call) ==
    LET parts == SplitName(call.name)
    IN  Len(parts) = 2 /\ parts[1] \notin DOMAIN mcp_clients

ResponsePart(name, key, value) ==
    [text |-> None, inline_data |-> None, file_data |-> None, function_call |-> None,
     function_response |-> Some([name |-> name, response |-> [key |-> key, value |-> value]])]

CallPart(call) ==
    [text |-> None, inline_data |-> None, file_data |-> None, function_call |-> Some(call),
     function_response |-> None]

TextPart(text) ==
    [text |-> Some(text), inline_data |-> None, file_data |-> None, function_call |-> None,
     function_response |-> None]

C3_Step ==
    /\ (pc = "Streaming" /\ stream = <<>> /\ Len(function_calls) = 1
            /\ Registered(function_calls[1]))
        => /\ history' = Append(history,
                  [role |-> "model",
                   parts |-> (IF full_response_text # ""
                              THEN <<TextPart(full_response_text)>> ELSE <<>>)
                             \o <<CallPart(function_calls[1])>>])
           /\ pc' = "DispatchingTools"
           /\ n_requests' = n_requests
    /\ (pc = "DispatchingTools" /\ Len(function_calls) = 1 /\ Registered(function_calls[1]))
        => /\ history' = Append(history,
                  [role |-> "function",
                   parts |-> <<ResponsePart(function_calls[1].name, "result",
                                   ResultOf(SplitName(function_calls[1].name)[2]))>>])
           /\ pc' = "BuildingRequest"
           /\ n_requests' = n_requests
    /\ pc = "BuildingRequest"
        => /\ n_requests' = n_requests + 1
           /\ history' = history
           /\ pc' \in {"Streaming", "AwaitingUserInput"}

\* C3: a reply with exactly one function call to a registered server whose
\* tool returns a result makes the orchestrator append one model message
\* holding the call, then one function message holding {result: <value>},
\* and then issue one model request (and no other before the next reply).
C3_ToolRoundTrip == [][C3_Step]_vars

\* a follow-up request was issued after a function message with a result
C3_Witness ==
    /\ pc = "Streaming"
    /\ n_requests = 2
    /\ Len(history) >= 3
    /\ history[Len(history)].role = "function"
    /\ Len(history[Len(history)].parts) = 1
    /\ history[Len(history)].parts[1].function_response[1].response.key = "result"
    /\ history[Len(history) - 1].role = "model"

C4_Pre == pc = "Streaming" /\ stream = <<>> /\ function_calls = <<>>

\* C4 as stated: a reply with zero function calls appends exactly one model
\* message and returns to AwaitingUserInput.
C4_OneModelMessageAlways ==
    [][C4_Pre => /\ history' = Append(history, [role |-> "model",
                                               parts |-> <<TextPart(full_response_text)>>])
                 /\ pc' = "AwaitingUserInput"]_vars

\* C4, amended: a reply with zero function calls appends exactly one model
\* message holding the accumulated text when that text is not empty, appends
\* nothing when it is empty, and returns to AwaitingUserInput.
C4_OneModelMessageIfText ==
    [][C4_Pre => /\ history' = IF full_response_text # ""
                               THEN Append(history, [role |-> "model",
                                        parts |-> <<TextPart(full_response_text)>>])
                               ELSE history
                 /\ pc' = "AwaitingUserInput"]_vars

\* a turn ended by a reply without calls whose text became the last message
C4_Witness ==
    /\ pc = "AwaitingUserInput"
    /\ reported = Some(Usage(10, 5, 15))
    /\ history # <<>>
    /\ history[Len(history)] = [role |-> "model", parts |-> <<TextPart("Found 1 file.")>>]

C5_Step ==
    (pc = "DispatchingTools" /\ Len(responses) < Len(function_calls) /\ Unregistered(NextCall))
        => /\ procs' = procs
           /\ mcp_clients' = mcp_clients
           /\ IF Len(responses) + 1 = Len(function_calls)
              THEN /\ pc' = "BuildingRequest"
                   /\ Len(history') = Len(history) + 1
                   /\ SubSeq(history', 1, Len(history)) = history
                   /\ history'[Len(history')].role = "function"
                   /\ Len(history'[Len(history')].parts) = Len(function_calls)
                   /\ history'[Len(history')].parts[Len(function_calls)]
                          = ResponsePart(NextCall.name, "error", "MCP Server not found")
              ELSE /\ pc' = "DispatchingTools"
                   /\ history' = history
                   /\ Len(responses') = Len(responses) + 1
                   /\ PartFunctionResponse(responses'[Len(responses')])
                          = ResponsePart(NextCall.name, "error", "MCP Server not found")

\* C5: a call whose server part is not a key of the registry is answered
\* with the error response "MCP Server not found" under the call's name, no
\* subprocess is written to, and the round goes on: to the next call, or
\* after the last call to the function message and the next request.
C5_UnregisteredServer == [][C5_Step]_vars

\* the function message of a round holds the synthetic error and the next
\* request is about to be built
C5_Witness ==
    /\ pc = "BuildingRequest"
    /\ history # <<>>
    /\ history[Len(history)].role = "function"
    /\ \E i \in DOMAIN history[Len(history)].parts :
          history[Len(history)].parts[i].function_response[1].response
              = [key |-> "error", value |-> "MCP Server not found"]

ToolCallsSent ==
    {pi \in UNION {{<<p, i>> : i \in DOMAIN procs[p].sent} : p \in DOMAIN procs} :
        procs[pi[1]].sent[pi[2]].method = "tools/call"}

\* C6: in the scripted scenario the final history is exactly the user text,
\* the model message with the call fs__list, the function message with
\* {result: ["a.txt"]} and the model text "Found 1 file."; the one tool call
\* went to server fs with tool name "list"; the usage reported is 10/5/15.
C6_Scenario ==
    ScenarioDone =>
        /\ history = << [role |-> "user", parts |-> <<TextPart("list files")>>],
                        [role |-> "model",
                         parts |-> <<CallPart([name |-> <<"f","s","_","_","l","i","s","t">>,
                                               args |-> "{}"])>>],
                        [role |-> "function",
                         parts |-> <<ResponsePart(<<"f","s","_","_","l","i","s","t">>,
                                                  "result", "[\"a.txt\"]")>>],
                        [role |-> "model", parts |-> <<TextPart("Found 1 file.")>>] >>
        /\ reported = Some([prompt_token_count |-> 10, candidates_token_count |-> 5,
                            total_token_count |-> 15])
        /\ Cardinality(ToolCallsSent) = 1
        /\ \A pi \in ToolCallsSent :
              /\ procs[pi[1]].name = <<"f", "s">>
              /\ procs[pi[1]].sent[pi[2]].tool = Some(<<"l", "i", "s", "t">>)

\* the scenario has run to its end
C6_Witness == ScenarioDone /\ Len(history) = 4 /\ reported # None

C10_State ==
    /\ \A p \in DOMAIN procs : \A i, j \in DOMAIN procs[p].sent :
          (i < j /\ procs[p].sent[i].id # None /\ procs[p].sent[j].id # None)
              => procs[p].sent[i].id[1] < procs[p].sent[j].id[1]
    /\ \A n \in DOMAIN mcp_clients : \A i \in DOMAIN procs[mcp_clients[n].pid].sent :
          procs[mcp_clients[n].pid].sent[i].id # None
              => procs[mcp_clients[n].pid].sent[i].id[1] < mcp_clients[n].next_id
    /\ \A p \in DOMAIN procs : \A i \in DOMAIN procs[p].sent :
          procs[p].sent[i].method = "notifications/initialized" <=> procs[p].sent[i].id = None

C10_Step ==
    \A n \in DOMAIN mcp_clients' :
        (n \notin DOMAIN mcp_clients \/ mcp_clients'[n].pid # mcp_clients[n].pid)
            => /\ mcp_clients'[n].next_id = 2
               /\ Len(procs'[mcp_clients'[n].pid].sent) = 2
               /\ procs'[mcp_clients'[n].pid].sent[1].id = Some(1)
               /\ procs'[mcp_clients'[n].pid].sent[2].id = None

\* C10: the ids of the requests written to one server process are strictly
\* increasing in send order (so none is used twice), the next id to use is
\* above all of them whatever writes or reads failed, and a notification
\* carries no id and uses none: a client that has just been started has sent
\* id 1 and one notification, and its next id is 2.
C10_IdsStrictlyIncrease == []C10_State /\ [][C10_Step]_vars

\* a server that was sent ids 1, 3, 4: the request with id 2 failed to be written
C10_Witness ==
    \E p \in DOMAIN procs :
        /\ Len(procs[p].sent) >= 4
        /\ \E i \in DOMAIN procs[p].sent :
              procs[p].sent[i].id # None /\ procs[p].sent[i].id[1] > i - 1

(***************************************************************************)
(* Claims about the tool subprocess client's protocol                      *)
(***************************************************************************)
\* the response lines lying unread on the output of process p
UnreadResponses(p) == {i \in DOMAIN procs[p].out : procs[p].out[i].id # None}

\* a request (a message with an id) is written to process p in this step
RequestWritten(p) ==
    /\ p \in DOMAIN procs'
    /\ IF p \in DOMAIN procs
       THEN /\ Len(procs'[p].sent) > Len(procs[p].sent)
            /\ \E i \in (Len(procs[p].sent) + 1)..Len(procs'[p].sent) :
                  procs'[p].sent[i].id # None
       ELSE FALSE

\* C11: each tool server has at most one request whose response has not been
\* read: no request is written to a server process while the response to an
\* earlier request to it still lies unread on its output.
C11_OneRequestInFlight ==
    [][\A p \in DOMAIN procs : RequestWritten(p) => UnreadResponses(p) = {}]_vars

\* C12: a request to a tool server returns only the response whose id equals
\* the id of the request: whenever the last round trip with a process handed
\* a line to its caller, that line carries the id of the request just written.
C12_ResponseIdMatches ==
    \A p \in DOMAIN procs :
        procs[p].last # None => procs[p].last[1].line.id = Some(procs[p].last[1].req)

\* C13: initialize is the first message written to every server process,
\* tools/list and tools/call come only behind it, a registered server has
\* been sent initialize and then the initialized notification, and the line
\* it was given as the response to initialize (id 1) is that response: the
\* response is read before anything else is asked of the server.
C13_InitializeFirst ==
    /\ \A p \in DOMAIN procs : \A i \in DOMAIN procs[p].sent :
          (procs[p].sent[i].method = "initialize") <=> (i = 1)
    /\ \A n \in DOMAIN mcp_clients :
          LET proc == procs[mcp_clients[n].pid]
          IN  /\ Len(proc.sent) >= 2
              /\ proc.sent[1].id = Some(1)
              /\ proc.sent[2].method = "notifications/initialized"
              /\ (proc.last # None /\ proc.last[1].req = 1) => proc.last[1].line.id = Some(1)

\* the initialized notifications written to process p
NotificationsSent(p) ==
    {i \in DOMAIN procs[p].sent : procs[p].sent[i].method = "notifications/initialized"}

\* C14: notifications/initialized is written to a server process at most
\* once, exactly once to a registered one, and not when the response read to
\* initialize is an error response (the line read for request 1 being the
\* last line read from a process that has the notification).
C14_InitializedOnceAfterSuccess ==
    /\ \A p \in DOMAIN procs : Cardinality(NotificationsSent(p)) <= 1
    /\ \A n \in DOMAIN mcp_clients :
          Cardinality(NotificationsSent(mcp_clients[n].pid)) = 1
    /\ \A p \in DOMAIN procs :
          (NotificationsSent(p) # {} /\ procs[p].last # None /\ procs[p].last[1].req = 1)
              => procs[p].last[1].line.error = None

\* the main loop ends in this step
LoopEnds == pc # "Exited" /\ pc' = "Exited"

\* every subprocess that was started has been killed once the program returns
C15_AllKilled ==
    pc = "Exited" => /\ mcp_clients = <<>>
                     /\ \A p \in DOMAIN procs : procs[p].state = "killed"

\* C15: when the main loop ends, every registered subprocess is killed by
\* the time the program returns, and at that moment no registered server has
\* the response to a request lying unread on its output.
C15_CleanShutdown ==
    [][LoopEnds =>
          \A n \in DOMAIN mcp_clients :
              /\ procs'[mcp_clients[n].pid].state = "killed"
              /\ UnreadResponses(mcp_clients[n].pid) = {}]_vars

(***************************************************************************)
(* Claims about failures of tools and of the model stream                  *)
(***************************************************************************)
\* the process of the server the next call of the round is addressed to
NextCallPid == mcp_clients[SplitName(NextCall.name)[1]].pid

\* the call_tool of this step failed: nothing came back from the round trip
\* (the write failed, the output was closed, the line did not parse) or the
\* line that came back holds an error object
CallFailed ==
    \/ procs'[NextCallPid].last = None
    \/ procs'[NextCallPid].last[1].line.error # None

\* fr is an error response under the name of the next call
ErrorResponseToNextCall(fr) == fr.name = NextCall.name /\ fr.response.key = "error"

C16_Step ==
    /\ (/\ pc = "DispatchingTools"
        /\ Len(responses) < Len(function_calls)
        /\ Registered(NextCall)
        /\ CallFailed)
        => IF Len(responses) + 1 = Len(function_calls)
           THEN /\ pc' = "BuildingRequest"
                /\ Len(history') = Len(history) + 1
                /\ SubSeq(history', 1, Len(history)) = history
                /\ history'[Len(history')].role = "function"
                /\ Len(history'[Len(history')].parts) = Len(function_calls)
                /\ \A i \in 1..Len(responses) :
                      history'[Len(history')].parts[i].function_response = Some(responses[i])
                /\ history'[Len(history')].parts[Len(function_calls)].function_response # None
                /\ ErrorResponseToNextCall(
                      history'[Len(history')].parts[Len(function_calls)].function_response[1])
           ELSE /\ pc' = "DispatchingTools"
                /\ history' = history
                /\ function_calls' = function_calls
                /\ Len(responses') = Len(responses) + 1
                /\ SubSeq(responses', 1, Len(responses)) = responses
                /\ ErrorResponseToNextCall(responses'[Len(responses')])
    /\ pc = "DispatchingTools" => pc' \in {"DispatchingTools", "BuildingRequest"}
    /\ pc = "BuildingRequest" => n_requests' = n_requests + 1

\* C16: when call_tool on a registered server fails (by a transport failure
\* or by an error object), an error response is recorded under the name of
\* the call, the remaining calls of the round are still dispatched, after
\* the last one the function message with every response of the round is
\* appended, and the next model request is issued.
C16_ToolFailureRecorded == [][C16_Step]_vars

\* a round of two calls whose first failed with an error object and whose
\* second returned a result, followed by the next request
C16_Witness ==
    /\ pc = "Streaming"
    /\ n_requests = 2
    /\ history # <<>>
    /\ history[Len(history)].role = "function"
    /\ Len(history[Len(history)].parts) = 2
    /\ history[Len(history)].parts[1].function_response[1].response
          = [key |-> "error", value |-> "MCP Error -32000: failed"]
    /\ history[Len(history)].parts[2].function_response[1].response.key = "result"

\* the list_tools of this step on the registered server n succeeded: a line
\* came back and its result holds a tool list
ListSucceeded(n) ==
    LET last == procs'[mcp_clients[n].pid].last
    IN  /\ last # None
        /\ last[1].line.result # None
        /\ last[1].line.result[1].tools # None

\* the declarations of server n as they stand in a request, from the tool
\* list the server sent in this step
DeclarationsOf(n) ==
    LET tools == procs'[mcp_clients[n].pid].last[1].line.result[1].tools[1]
    IN  [function_declarations |->
            [i \in 1..Len(tools) |-> [name |-> n \o <<"_", "_">> \o tools[i]]]]

\* server n was asked for its tools in this step: its client used one id
\* and, unless the write failed, tools/list is the last message written
AskedForTools(n) ==
    LET pid == mcp_clients[n].pid
    IN  /\ mcp_clients'[n].next_id = mcp_clients[n].next_id + 1
        /\ \/ procs'[pid].sent = procs[pid].sent /\ procs'[pid].last = None
           \/ procs'[pid].sent = Append(procs[pid].sent,
                                        [method |-> "tools/list",
                                         id |-> Some(mcp_clients[n].next_id),
                                         tool |-> None])

C17_Step ==
    pc = "BuildingRequest"
        => /\ DOMAIN mcp_clients' = DOMAIN mcp_clients
           /\ \A n \in DOMAIN mcp_clients :
                 /\ mcp_clients'[n].pid = mcp_clients[n].pid
                 /\ procs'[mcp_clients[n].pid].state = "running"
                 /\ AskedForTools(n)
           /\ n_requests' = n_requests + 1
           /\ pc' = "Streaming"
                 => /\ request' # None
                    /\ LET ok == {n \in DOMAIN mcp_clients : ListSucceeded(n)}
                           tools == request'[1].tools
                       IN  IF ok = {} THEN tools = None
                           ELSE /\ tools # None
                                /\ Len(tools[1]) = Cardinality(ok)
                                /\ \A n \in ok : \E i \in DOMAIN tools[1] :
                                      tools[1][i] = DeclarationsOf(n)

\* C17: on each pass of the agent loop every registered server is asked for
\* its tool list; the request holds the declarations of exactly the servers
\* whose list_tools succeeded (none of a failing server, those of every
\* other server), the request is sent all the same, and every server,
\* failing or not, stays registered with its process running.
C17_ListFailureExcluded == [][C17_Step]_vars

\* a request was sent with the declarations of one of two registered
\* servers, the other having closed its output on tools/list
C17_Witness ==
    /\ pc = "Streaming"
    /\ received = <<>>
    /\ DOMAIN mcp_clients = {FS, DB}
    /\ request # None
    /\ request[1].tools # None
    /\ Len(request[1].tools[1]) = 1
    /\ \E n \in DOMAIN mcp_clients :
          /\ procs[mcp_clients[n].pid].last = None
          /\ procs[mcp_clients[n].pid].sent[Len(procs[mcp_clients[n].pid].sent)].method
                = "tools/list"
          /\ \A i \in DOMAIN request[1].tools[1][1].function_declarations :
                SubSeq(request[1].tools[1][1].function_declarations[i].name, 1, 2) # n

(***************************************************************************)
(* Claims about the requests to the model                                  *)
(***************************************************************************)
\* C18: while the reply to a request is streamed (nothing the request was
\* built from has changed yet), the request built with an active cache
\* handle holds only the new turn's content, names the cache as its model
\* and carries no system instruction; the request built without one holds
\* the whole history in order, names the configured model and carries the
\* configured system instruction.
C18_RequestShape ==
    pc = "Streaming" =>
        /\ request # None
        /\ IF active_cache_name # None
           THEN /\ request[1].contents = <<[role |-> "user", parts |-> content_parts]>>
                /\ request[1].model = active_cache_name[1]
                /\ request[1].system_instruction = None
           ELSE /\ Len(request[1].contents) = Len(history)
                /\ \A i \in DOMAIN history :
                      /\ request[1].contents[i].role = history[i].role
                      /\ request[1].contents[i].parts = history[i].parts
                /\ request[1].model = "gemini-2.0-flash"
                /\ request[1].system_instruction
                      = Some([role |-> "user", parts |-> <<TextPart("be brief")>>])

\* a request built with an active cache handle while the history holds more
\* than the new turn
C18_Witness ==
    /\ pc = "Streaming"
    /\ active_cache_name = Some("cachedContents/1")
    /\ Len(history) >= 3
    /\ request # None
    /\ Len(request[1].contents) = 1
    /\ request[1].system_instruction = None

\* the request being answered was built after the tools of this turn were
\* dispatched: the function message of the round is the last of the history
BuiltAfterDispatch ==
    /\ pc = "Streaming"
    /\ Len(history) >= 2
    /\ history[Len(history)].role = "function"
    /\ history[Len(history) - 1].role = "model"

\* the contents of the request hold the model message of the round followed
\* by its function message
RoundFedBack ==
    /\ request # None
    /\ \E i \in 1..(Len(request[1].contents) - 1) :
          /\ request[1].contents[i]
                = [role |-> "model", parts |-> history[Len(history) - 1].parts]
          /\ request[1].contents[i + 1]
                = [role |-> "function", parts |-> history[Len(history)].parts]

\* C19: every request built after a tool dispatch of the same turn holds the
\* model message with the calls followed by the function message with their
\* responses, whether or not a cache handle is active.
C19_ToolResultsFedBack == BuiltAfterDispatch => RoundFedBack

\* C19 without a cache handle (holds): the results are fed back
C19_FedBackWithoutCache == (BuiltAfterDispatch /\ active_cache_name = None) => RoundFedBack

\* the stream reports a transport error in this step
StreamErrorReported == pc = "Streaming" /\ stream # <<>> /\ ~Head(stream).ok

\* the request of this pass fails to open
OpenFailed == pc = "BuildingRequest" /\ pc' # "Streaming"

\* the turn ends here: back at the prompt, nothing dispatched, history kept
TurnEndsHere ==
    /\ pc' = "AwaitingUserInput"
    /\ history' = history
    /\ procs' = procs
    /\ n_requests' = n_requests

\* C20 for the request that fails to open (holds): the turn ends with the
\* history kept, no tool is dispatched and the program keeps running
C20_OpenFailureEndsTurn ==
    [][OpenFailed => pc' = "AwaitingUserInput" /\ history' = history]_vars

\* C20: an error in the model stream, the request failing to open or a
\* transport error in the middle of the stream, ends the turn: control is
\* back at AwaitingUserInput with no tool dispatched and no further request,
\* and the history appended so far is kept.
C20_StreamErrorEndsTurn ==
    [][/\ OpenFailed => pc' = "AwaitingUserInput" /\ history' = history
       /\ StreamErrorReported => TurnEndsHere]_vars

(***************************************************************************)
(* Claims about the agent loop after the stream                            *)
(***************************************************************************)
\* the stream of this pass has ended and the loop leaves the decode loop
StreamEnds == pc = "Streaming" /\ stream = <<>>

C21_Step ==
    /\ StreamEnds
        => /\ pc' \in {"DispatchingTools", "AwaitingUserInput"}
           /\ (pc' = "DispatchingTools") <=> (function_calls # <<>>)
           /\ (pc' = "AwaitingUserInput") <=> (function_calls = <<>>)
           /\ pc' = "AwaitingUserInput" => reported' = usage_meta
    /\ (pc # "DispatchingTools" /\ pc' = "DispatchingTools")
        => StreamEnds /\ function_calls # <<>>

\* C21: when the stream of a pass has ended the orchestrator enters
\* DispatchingTools exactly if the accumulated list of function calls is not
\* empty and completes the turn (usage reported, back at the prompt) exactly
\* if it is empty; DispatchingTools is entered in no other way.
C21_DispatchIffCalls == [][C21_Step]_vars

\* a turn whose first reply went to the tools and whose second completed it
C21_Witness ==
    /\ pc = "AwaitingUserInput"
    /\ n_requests = 2
    /\ Len(history) >= 4
    /\ history[Len(history)].role = "model"
    /\ history[Len(history) - 1].role = "function"
    /\ reported # None

\* a tools/call request is written to some process in this step
ToolCallWritten ==
    \E p \in DOMAIN procs' : \E i \in DOMAIN procs'[p].sent :
        /\ procs'[p].sent[i].method = "tools/call"
        /\ (p \in DOMAIN procs => i > Len(procs[p].sent))

\* the function calls held by the parts of a message, in order
CallsIn(parts) ==
    LET RECURSIVE Pick(_)
        Pick(ps) == IF ps = <<>> THEN <<>>
                    ELSE (IF Head(ps).function_call # None
                          THEN <<Head(ps).function_call[1]>> ELSE <<>>) \o Pick(Tail(ps))
    IN  Pick(parts)

\* C22: no tool is invoked while a reply is streamed: a tools/call is
\* written only in DispatchingTools, when the stream of the pass has ended
\* and the last message of the history is the model message holding all the
\* calls accumulated from that reply.
C22_NoToolWhileStreaming ==
    [][ToolCallWritten =>
          /\ pc = "DispatchingTools"
          /\ stream = <<>>
          /\ history # <<>>
          /\ history[Len(history)].role = "model"
          /\ CallsIn(history[Len(history)].parts) = function_calls]_vars

\* the first call of a round of two has been sent to its server
C22_Witness ==
    /\ pc = "DispatchingTools"
    /\ Len(function_calls) = 2
    /\ Len(responses) = 1
    /\ \E p \in DOMAIN procs :
          /\ procs[p].sent # <<>>
          /\ procs[p].sent[Len(procs[p].sent)].method = "tools/call"

\* the tools/call written in this step, if any, is the one of the next call
\* of the round: its tool, to the process of its server
OnlyNextCallWritten ==
    \A p \in DOMAIN procs : \A i \in DOMAIN procs'[p].sent :
        (i > Len(procs[p].sent) /\ procs'[p].sent[i].method = "tools/call")
            => /\ Registered(NextCall)
               /\ p = mcp_clients[SplitName(NextCall.name)[1]].pid
               /\ procs'[p].sent[i].tool = Some(SplitName(NextCall.name)[2])

C23_Step ==
    /\ (StreamEnds /\ function_calls # <<>>)
        => history' = Append(history,
               [role |-> "model",
                parts |-> (IF full_response_text # ""
                           THEN <<TextPart(full_response_text)>> ELSE <<>>)
                          \o [i \in 1..Len(function_calls) |-> CallPart(function_calls[i])]])
    /\ pc = "DispatchingTools"
        => /\ Len(responses) < Len(function_calls)
           /\ OnlyNextCallWritten
           /\ IF Len(responses) + 1 < Len(function_calls)
              THEN /\ pc' = "DispatchingTools"
                   /\ history' = history
                   /\ function_calls' = function_calls
                   /\ Len(responses') = Len(responses) + 1
                   /\ SubSeq(responses', 1, Len(responses)) = responses
                   /\ responses'[Len(responses')].name = NextCall.name
              ELSE /\ pc' = "BuildingRequest"
                   /\ Len(history') = Len(history) + 1
                   /\ SubSeq(history', 1, Len(history)) = history
                   /\ history'[Len(history')].role = "function"
                   /\ Len(history'[Len(history')].parts) = Len(function_calls)
                   /\ \A i \in 1..Len(function_calls) :
                         LET part == history'[Len(history')].parts[i]
                         IN  /\ part.function_response # None
                             /\ part.function_response[1].name = function_calls[i].name
                             /\ i <= Len(responses)
                                   => part.function_response[1] = responses[i]

\* C23: for a reply with n >= 1 calls the tool round appends exactly two
\* messages: when the stream ends, one model message whose parts are the
\* accumulated text (if not empty) and then the n calls in arrival order;
\* after the last call, one function message with exactly n response parts,
\* the i-th under the name of the i-th call; in between the history stands
\* still and the tools are invoked one call at a time in that same order.
C23_TwoMessagesPerRound == [][C23_Step]_vars

\* a round of two calls has ended: the model message holds both calls, the
\* function message both responses under the names of the calls
C23_Witness ==
    /\ pc = "BuildingRequest"
    /\ Len(history) >= 3
    /\ history[Len(history)].role = "function"
    /\ history[Len(history) - 1].role = "model"
    /\ Len(history[Len(history)].parts) = 2
    /\ Len(CallsIn(history[Len(history) - 1].parts)) = 2
    /\ \A i \in 1..2 :
          history[Len(history)].parts[i].function_response[1].name
              = CallsIn(history[Len(history) - 1].parts)[i].name
    /\ history[Len(history)].parts[1].function_response[1].name
          # history[Len(history)].parts[2].function_response[1].name

(***************************************************************************)
(* Claims about transport errors in the middle of a stream                 *)
(***************************************************************************)
\* C24: the decode loop ends at the first transport error: once the stream
\* has reported one, nothing of that stream is left to be decoded.
C24_LoopEndsAtError == [][StreamErrorReported => stream' = <<>>]_vars

C25_Step ==
    /\ StreamErrorReported
        => /\ full_response_text' = full_response_text
           /\ function_calls' = function_calls
           /\ usage_meta' = usage_meta
    /\ (StreamEnds /\ full_response_text # "")
        => /\ Len(history') = Len(history) + 1
           /\ SubSeq(history', 1, Len(history)) = history
           /\ history'[Len(history')].role = "model"
           /\ history'[Len(history')].parts[1] = TextPart(full_response_text)

\* C25: a transport error in the middle of a stream leaves the text, the
\* function calls and the usage accumulated so far as they are, and text
\* that was accumulated is committed to the history when the stream ends,
\* as the first part of the model message.
C25_PartialOutputKept == [][C25_Step]_vars

\* the text and the calls of the chunk before a transport error stand in
\* the history (the usage 1/1/2 is that of the chunk behind the error)
C25_Witness ==
    /\ pc = "DispatchingTools"
    /\ usage_meta = Some([prompt_token_count |-> 1, candidates_token_count |-> 1,
                          total_token_count |-> 2])
    /\ full_response_text = "Hi"
    /\ history[Len(history)].role = "model"
    /\ history[Len(history)].parts[1] = TextPart("Hi")
    /\ Len(history[Len(history)].parts) = 3

(***************************************************************************)
(* Claims about the conversation state                                     *)
(***************************************************************************)
\* the earlier history is a prefix of the later one
HistoryExtended ==
    /\ Len(history) <= Len(history')
    /\ SubSeq(history', 1, Len(history)) = history

\* the history is emptied as a whole and the cost accumulator is zero: what
\* /clear does (and what is left of the session when the program ends)
HistoryCleared ==
    /\ pc = "AwaitingUserInput"
    /\ history' = <<>>
    /\ total_cost' = 0

C26_Step ==
    /\ HistoryExtended \/ HistoryCleared
    /\ \A i \in DOMAIN history' : history'[i].role \in {"user", "model", "function"}

\* C26: the history is append-only: every step leaves the earlier history as
\* a prefix of the later one (no message removed, reordered or modified),
\* except a /clear, which empties it entirely and leaves the cost
\* accumulator at zero; every message has role user, model or function.
C26_HistoryAppendOnly == [][C26_Step]_vars

\* a turn was made, the history was cleared, and the user message of the
\* next turn is the only one in the history
C26_Witness ==
    /\ pc = "BuildingRequest"
    /\ n_requests = 1
    /\ Len(history) = 1
    /\ history[1].role = "user"

\* the payload kinds a part carries
KindsOf(part) ==
    {k \in {"text", "inline_data", "file_data", "function_call", "function_response"} :
        part[k] # None}

\* C27: every part stored in the history carries exactly one payload kind:
\* text, inline blob, file reference, function call or function response.
C27_OneKindPerPart ==
    \A i \in DOMAIN history : \A j \in DOMAIN history[i].parts :
        Cardinality(KindsOf(history[i].parts[j])) = 1

\* the round of a reply whose first streamed part carried both the text "Hi"
\* and a function call is in the history: text and calls in parts of their own
C27_Witness ==
    /\ pc = "BuildingRequest"
    /\ Len(history) >= 3
    /\ history[Len(history)].role = "function"
    /\ Len(history[Len(history) - 1].parts) = 3
    /\ history[Len(history) - 1].parts[1] = TextPart("Hi")
    /\ history[Len(history) - 1].parts[2]
          = CallPart([name |-> <<"f", "s", "_", "_", "l", "i", "s", "t">>, args |-> "{}"])
    /\ KindsOf(history[Len(history) - 1].parts[3]) = {"function_call"}

(***************************************************************************)
(* Claims about starting a tool server and reading its output              *)
(***************************************************************************)
\* a child was spawned in this step and its start failed: the handshake did
\* not get as far as the initialized notification
StartFailed ==
    /\ Len(procs') = Len(procs) + 1
    /\ \A i \in DOMAIN procs'[Len(procs')].sent :
          procs'[Len(procs')].sent[i].method # "notifications/initialized"

C28_Step ==
    StartFailed
        => /\ mcp_clients' = mcp_clients
           /\ procs'[Len(procs')].state = "killed"
           /\ \A p \in DOMAIN procs : procs'[p] = procs[p]

\* C28: when the start of a tool server fails because the response to
\* initialize cannot be read or parsed (or a write fails), the registry is
\* left exactly as it was, the child spawned by the failed start is killed,
\* and no other process is touched.  (A failed spawn leaves no child and
\* changes nothing at all.)
C28_FailedStartLeavesNothing == [][C28_Step]_vars

\* a second start under the name of a running server failed at the
\* handshake: its child is killed, the registry still holds the first
C28_Witness ==
    \E p, q \in DOMAIN procs :
        /\ p < q
        /\ procs[p].name = procs[q].name
        /\ procs[p].state = "running"
        /\ procs[p].name \in DOMAIN mcp_clients
        /\ mcp_clients[procs[p].name].pid = p
        /\ procs[q].state = "killed"
        /\ Len(procs[q].sent) = 1

\* C29: each read of a response removes exactly one line from the output of
\* the subprocess: no read takes lines behind the one it returns, so a line
\* the server wrote after the returned one is still there for the next read.
C29_OneLinePerRead == \A p \in DOMAIN procs : procs[p].dropped = 0

(***************************************************************************)
(* C30: schema mapping and the depth of the input                          *)
(***************************************************************************)
SchemaMapped == sch.stage = "mapped"

\* the mapping ended with the failure SchemaTooDeep instead of a node
FailedTooDeep(out) == "schema_type" \notin DOMAIN out

\* a node at every level of the input, with the input's property names
RECURSIVE SameNames(_, _)
SameNames(input, out) ==
    /\ "schema_type" \in DOMAIN out
    /\ (input.properties = None) <=> (out.properties = None)
    /\ input.properties # None =>
          /\ DOMAIN out.properties[1] = DOMAIN input.properties[1]
          /\ \A k \in DOMAIN input.properties[1] :
                SameNames(input.properties[1][k], out.properties[1][k])

\* C30: a schema nested deeper than the depth limit makes the mapping fail
\* with SchemaTooDeep, and a schema within the limit is mapped to a node at
\* every level with the property names of the input.
C30_SchemaMappingBounded ==
    SchemaMapped =>
        IF Depth(sch.input[1]) > DepthLimit
        THEN FailedTooDeep(sch.output[1])
        ELSE SameNames(sch.input[1], sch.output[1])

\* what the code does instead: every schema, however deep, is mapped to a
\* node at every level with the property names of the input
C30_EveryDepthMapped ==
    SchemaMapped => SameNames(sch.input[1], sch.output[1])

\* a schema of more than DepthLimit levels has been mapped, down to its
\* deepest level
C30_DeepSchemaMapped ==
    /\ SchemaMapped
    /\ Depth(sch.input[1]) = MaxDepth
    /\ MaxDepth > DepthLimit
    /\ SameNames(sch.input[1], sch.output[1])

(***************************************************************************)
(* C31: the type of a mapped node                                          *)
(***************************************************************************)
\* the type names the target schema has
TargetTypes == {"STRING", "NUMBER", "INTEGER", "BOOLEAN", "ARRAY", "OBJECT"}

\* the type of the input node is absent, or not a string
TypeAbsent(input) ==
    \/ input.type = None
    \/ AsStr(input.type[1]) = None

\* the type of the input node is a string that names no type of the target
TypeUnknown(input) ==
    /\ ~TypeAbsent(input)
    /\ ToUppercase(AsStr(input.type[1])[1]) \notin TargetTypes

\* P(input node, output node) holds of every node of a mapped schema
RECURSIVE EveryNode(_, _, _)
EveryNode(P(_, _), input, out) ==
    /\ P(input, out)
    /\ input.properties # None =>
          \A k \in DOMAIN input.properties[1] :
              EveryNode(P, input.properties[1][k], out.properties[1][k])

DefaultsToObject(input, out) ==
    (TypeAbsent(input) \/ TypeUnknown(input)) => out.schema_type = "OBJECT"

AbsentIsObject(input, out) ==
    TypeAbsent(input) => out.schema_type = "OBJECT"

\* C31: a node whose type is absent or unknown is mapped to a node of type
\* object, and the mapping gives a node (never an error) for it.
C31_UnknownTypeIsObject ==
    SchemaMapped =>
        /\ ~FailedTooDeep(sch.output[1])
        /\ EveryNode(DefaultsToObject, sch.input[1], sch.output[1])

\* what the code does: only an absent (or non-string) type becomes object
C31_AbsentTypeIsObject ==
    SchemaMapped =>
        /\ ~FailedTooDeep(sch.output[1])
        /\ EveryNode(AbsentIsObject, sch.input[1], sch.output[1])

(***************************************************************************)
(* C32: the live subprocesses and the registry                             *)
(***************************************************************************)
LiveChildren == {p \in DOMAIN procs : procs[p].state = "running"}

HeldChildren == {mcp_clients[n].pid : n \in DOMAIN mcp_clients}

\* C32: the subprocesses still alive are exactly those held by the entries
\* of the registry, one per registered name: replacing an entry kills the
\* process the old entry held, so there are never more live children than
\* registered names.
C32_LiveAreRegistered ==
    /\ LiveChildren = HeldChildren
    /\ \A n, m \in DOMAIN mcp_clients : mcp_clients[n].pid = mcp_clients[m].pid => n = m
    /\ Cardinality(LiveChildren) <= Cardinality(DOMAIN mcp_clients)

\* a server was started under a name already registered: the first child,
\* whose handshake had succeeded, is killed and the registry holds the second
C32_Witness ==
    \E p, q \in DOMAIN procs :
        /\ p < q
        /\ procs[p].name = procs[q].name
        /\ Len(procs[p].sent) >= 2
        /\ procs[p].state = "killed"
        /\ procs[q].state = "running"
        /\ procs[q].name \in DOMAIN mcp_clients
        /\ mcp_clients[procs[q].name].pid = q
        /\ pc = "AwaitingUserInput"

(***************************************************************************)
(* C33: a call whose name has no separator                                 *)
(***************************************************************************)
NoSeparator(call) == Len(SplitName(call.name)) = 1

C33_Step ==
    (pc = "DispatchingTools" /\ Len(responses) < Len(function_calls) /\ NoSeparator(NextCall))
        => /\ procs' = procs
           /\ mcp_clients' = mcp_clients
           /\ IF Len(responses) + 1 = Len(function_calls)
              THEN /\ pc' = "BuildingRequest"
                   /\ Len(history') = Len(history) + 1
                   /\ SubSeq(history', 1, Len(history)) = history
                   /\ history'[Len(history')].role = "function"
                   /\ Len(history'[Len(history')].parts) = Len(function_calls)
                   /\ \A i \in 1..Len(responses) :
                         history'[Len(history')].parts[i].function_response = Some(responses[i])
                   /\ history'[Len(history')].parts[Len(function_calls)]
                          = ResponsePart(NextCall.name, "error", "Invalid tool name format")
              ELSE /\ pc' = "DispatchingTools"
                   /\ history' = history
                   /\ function_calls' = function_calls
                   /\ responses' = Append(responses,
                          [name |-> NextCall.name,
                           response |-> [key |-> "error", value |-> "Invalid tool name format"]])

\* C33: a call whose name holds no "__" is answered with the error response
\* "Invalid tool name format" under the call's name; nothing is written to
\* any subprocess and the registry is untouched; after the last call of the
\* round the function message is appended and the next request is built.
C33_InvalidNameAnswered == [][C33_Step]_vars

\* a round whose last call had a name without separator was fed back: the
\* function message ends with the error and the next request is streaming
C33_Witness ==
    /\ pc = "Streaming"
    /\ n_requests = 2
    /\ history # <<>>
    /\ history[Len(history)].role = "function"
    /\ Len(history[Len(history)].parts) = 2
    /\ history[Len(history)].parts[2].function_response # None
    /\ history[Len(history)].parts[2].function_response[1].response
          = [key |-> "error", value |-> "Invalid tool name format"]
    /\ NoSeparator(history[Len(history)].parts[2].function_response[1])

(***************************************************************************)
(* C34: the usage reported at the end of a turn                            *)
(***************************************************************************)
\* the usage of the last UsageReported event of es, None if there is none
RECURSIVE LastUsageEvent(_)
LastUsageEvent(es) ==
    IF es = <<>> THEN None
    ELSE IF es[Len(es)].kind = "UsageReported" THEN es[Len(es)].usage
    ELSE LastUsageEvent(SubSeq(es, 1, Len(es) - 1))

C34_Step ==
    /\ (StreamEnds /\ function_calls = <<>>)
          => /\ pc' = "AwaitingUserInput"
             /\ reported' = LastUsageEvent(events)
    /\ (StreamEnds /\ function_calls # <<>>) => reported' = reported
    /\ pc \in {"BuildingRequest", "DispatchingTools"} => reported' = reported

\* C34: the usage reported when a turn completes is the last usage metadata
\* the decode loop has seen in the stream of the final request of the turn,
\* nothing if that stream gave none; the usage of the streams of earlier
\* tool rounds of the turn is neither reported nor carried over nor added.
C34_UsageOfFinalStreamOnly == [][C34_Step]_vars

\* a turn has completed whose tool round had streamed the usage 1/1/2 and
\* whose final stream gave no usage: nothing was reported
C34_Witness ==
    /\ pc = "AwaitingUserInput"
    /\ n_requests = 2
    /\ Len(history) = 3
    /\ history[2].role = "model"
    /\ Len(history[2].parts) = 3
    /\ history[2].parts[1] = TextPart("Hi")
    /\ history[3].role = "function"
    /\ reported = None

(***************************************************************************)
(* C35: what the model is given while a cache handle is active             *)
(***************************************************************************)
\* the message of the turn in progress: the last user message of the history
LastUserIndex ==
    IF \E i \in DOMAIN history : history[i].role = "user"
    THEN CHOOSE i \in DOMAIN history :
            /\ history[i].role = "user"
            /\ \A j \in DOMAIN history : history[j].role = "user" => j <= i
    ELSE 0

\* message m of the history is among the contents cs
PresentIn(m, cs) ==
    \E k \in DOMAIN cs : cs[k].role = m.role /\ cs[k].parts = m.parts

\* the request being answered was built while a cache handle was active
BuiltWithCache ==
    /\ pc = "Streaming"
    /\ request # None
    /\ active_cache_name # None
    /\ cache_contents # None

\* C35: while a cache handle is active, every message of the history other
\* than the user message of the turn in progress (earlier user turns, model
\* replies, function messages) is in the contents stored in the cache or in
\* the contents of the request that follows it.
C35_CacheCoversConversation ==
    BuiltWithCache =>
        \A i \in DOMAIN history :
            i # LastUserIndex =>
                \/ PresentIn(history[i], cache_contents[1])
                \/ PresentIn(history[i], request[1].contents)

(***************************************************************************)
(* C36: the parts built from the user's input                              *)
(***************************************************************************)
\* the first request of a turn is being answered: the user message of the
\* turn is still the last message of the history
FirstRequestOfTurn ==
    /\ pc = "Streaming"
    /\ request # None
    /\ history # <<>>
    /\ history[Len(history)].role = "user"

\* part is one of the parts of a user content of the request
InRequest(part) ==
    \E k \in DOMAIN request[1].contents :
        /\ request[1].contents[k].role = "user"
        /\ \E j \in DOMAIN request[1].contents[k].parts :
              request[1].contents[k].parts[j] = part

\* part is one of the parts of the user message of the turn
InUserMessage(part) ==
    \E j \in DOMAIN history[Len(history)].parts : history[Len(history)].parts[j] = part

\* C36: every part built from the user's input for a turn (the text, the
\* part made of each attached file) is in the first request of the turn and
\* in the user message appended to the history, with or without a cache
\* handle.
C36_InputPartsKept ==
    FirstRequestOfTurn =>
        \A i \in DOMAIN content_parts :
            InRequest(content_parts[i]) /\ InUserMessage(content_parts[i])

\* what the code does: the text part is in the user message, and with a
\* cache handle every part is in the request
C36_TextKeptAndPartsSentWithCache ==
    FirstRequestOfTurn =>
        \A i \in DOMAIN content_parts :
            /\ content_parts[i].text # None => InUserMessage(content_parts[i])
            /\ active_cache_name # None => InRequest(content_parts[i])

(***************************************************************************)
(* C37: what /clear leaves alone                                           *)
(***************************************************************************)
\* this step is a /clear: the history is emptied at the prompt
ClearStep ==
    /\ pc = "AwaitingUserInput"
    /\ pc' = "AwaitingUserInput"
    /\ history # <<>>
    /\ history' = <<>>

C37_Step ==
    /\ ClearStep
          => /\ total_cost' = 0
             /\ active_cache_name' = active_cache_name
             /\ cache_contents' = cache_contents
             /\ mcp_clients' = mcp_clients
             /\ procs' = procs
    /\ BuiltWithCache => request[1].model = active_cache_name[1]

\* C37: /clear changes the history and the cost accumulator only: the cache
\* handle with the contents it stands for, the registry with the request ids
\* of its clients, and the subprocesses are as before; a request built while
\* a cache handle is active names that cache, after a /clear as before it.
C37_ClearFrame == [][C37_Step]_vars

\* after a turn that created the cache with a server registered, the history
\* was cleared: the cache handle and the registry are still there
C37_Witness ==
    /\ pc = "AwaitingUserInput"
    /\ n_requests = 1
    /\ history = <<>>
    /\ active_cache_name = Some("cachedContents/1")
    /\ mcp_clients # <<>>
    /\ \E p \in DOMAIN procs : procs[p].state = "running"

(***************************************************************************)
(* C38: every turn ends                                                    *)
(***************************************************************************)
\* inside a turn the control thread always has a next step
C38_NoStuckTurn == InTurn => TurnStepEnabled

\* C38: every user turn returns to AwaitingUserInput, given that every
\* request returns, every stream ends, every tool call returns and the model
\* at last replies without function calls.
C38_TurnReturns == InTurn ~> (pc = "AwaitingUserInput")

\* a turn has made as many tool rounds as the run has requests to spare: all
\* the requests of the run belong to one turn, the loop itself stops none
C38_Witness ==
    /\ pc = "AwaitingUserInput"
    /\ n_requests = MaxRequests
    /\ Cardinality({i \in DOMAIN history : history[i].role = "user"}) = 1
    /\ Cardinality({i \in DOMAIN history : history[i].role = "function"}) = MaxRequests - 1
    /\ MaxRequests >= 2

=============================================================================
